---------------------------- MODULE Spec2Model ----------------------------
(***************************************************************************)
(* A model of the span/label annotation codec of ManTIME:                  *)
(*   - search_subsequence, apply_gazetteer, matching_gazetteer, __format   *)
(*     (src/mantime/utilities.py),                                         *)
(*   - format_annotation and Document.store_gold_annotations                *)
(*     (src/mantime/model.py),                                             *)
(*   - the label-to-span decoder of the design document, section 4.4,      *)
(*   - the overwrite renderers and the i2b2 stand-off writer                *)
(*     (src/mantime/writers.py) with the i2b2 reader's _get_annotations     *)
(*     (src/mantime/readers.py),                                            *)
(*   - ManTIME.train, ManTIME.label and main (src/mantime/mantime.py),      *)
(*   - Sentence objects as a reader's parse builds them,                    *)
(*   - pipeline and main of src/pipeline.py,                                *)
(*   - TempEval3FileReader.parse and the _get_annotations of the inline     *)
(*     readers (src/mantime/readers.py),                                    *)
(*   - Memoize (src/mantime/utilities.py).                                  *)
(* Python lists are modelled as TLA+ sequences; a Python index i is the    *)
(* TLA+ index i+1.  Each component has its own specification over its own  *)
(* group of variables; the other groups stay at their idle values.         *)
(***************************************************************************)
EXTENDS Integers, Sequences, FiniteSets, TLC

VARIABLES
    \* ---- search_subsequence (one generator run) ----
    sequence,          \* the sequence argument
    key,               \* the key argument
    end,               \* the end flag
    pc,                \* position of the generator in its code
    shifts_table,      \* the table of shift amounts
    shift,             \* local of the table loop
    current_position,  \* loop variable of the table loop
    start_position,    \* local of the search loop
    matched_lenght,    \* local of the search loop (spelt as in the source)
    consumed,          \* number of items the for loop has taken from sequence
    yielded,           \* the values yielded so far, in order
    \* ---- format_annotation (one call) ----
    start_token,       \* the token's begin offset
    end_token,         \* the token's end offset
    annotations,       \* the annotation list, triples (tag, attributes, (start, end))
    annotation_format, \* the declared label alphabet, a string as its characters
    class_label,       \* the returned label
    label_pc,          \* "call" before the call, "returned" after it
    \* ---- Document.store_gold_annotations and the decoder ----
    words,             \* the document's words, sentence after sentence
    gold_annotations,  \* document.gold_annotations
    doc_format,        \* the annotation_format handed to store_gold_annotations
    doc_annotation_format, \* document.annotation_format
    doc_pc,            \* "parsed", "stored", "decoding", "decoded"
    dec_labels,        \* the per-token labels handed to the decoder
    dec_index,         \* number of tokens the decoder has read
    dec_state,         \* the decoder's state: idle or collecting(tag, start, end)
    dec_counters,      \* the decoder's next sequence id, per tag name
    rendered_spans,    \* the spans the decoder has emitted, in order
    \* ---- apply_gazetteer and matching_gazetteer (one call) ----
    sentence,          \* the sentence: its characters, or its words' word forms
    gazetteer,         \* the gazetteer entries, in order
    case_sensitive,    \* the case_sensitive argument of apply_gazetteer
    gaz_result,        \* the outcome: a value returned or an error raised
    gaz_pc             \* "call", "matching_returned", "apply_returned"

searchVars == <<sequence, key, end, pc, shifts_table, shift, current_position,
                start_position, matched_lenght, consumed, yielded>>

labelVars == <<start_token, end_token, annotations, annotation_format,
               class_label, label_pc>>

docVars == <<words, gold_annotations, doc_format, doc_annotation_format,
             doc_pc, dec_labels, dec_index, dec_state, dec_counters, rendered_spans>>

gazVars == <<sentence, gazetteer, case_sensitive, gaz_result, gaz_pc>>

VARIABLES
    \* ---- TempEval3Writer.write / i2b2Writer.write_inline (one document) ----
    doc_text,          \* document.text, its characters
    text_offset,       \* document.text_offset
    predicted_annotations, \* document.predicted_annotations, in list order
    segments,          \* the local `text`: list(document.text), one segment per index
    element_index,     \* number of elements the for loop has finished
    blank_i,           \* loop variable i of the blanking loop
    rendered_text,     \* ''.join(text), once the loop is over
    render_pc          \* "for_element", "blanking", "joined"

VARIABLES
    \* ---- ManTIME.train and the test-mode loop of main() ----
    mode,              \* args.mode: "train" or "test"
    calls,             \* number of earlier calls of train on the instance,
                       \* or of earlier test runs of main()
    input_files,       \* the batch, in loop order: per file, what
                       \* extractor.extract(reader.parse(file)) and the
                       \* classifiers do with it
    file_index,        \* number of files the loop has finished
    self_documents,    \* ManTIME.documents
    trained_documents, \* the list handed to the classifiers' train()
    logged,            \* the files logged as skipped, in order
    output_files,      \* the files under ./output and their contents
    batch_pc           \* "loop", "trained", "finished", "raised"

batchVars == <<mode, calls, input_files, file_index, self_documents,
               trained_documents, logged, output_files, batch_pc>>

VARIABLES
    \* ---- Sentence objects built by a reader's parse ----
    default_words,     \* the list object that is the default value of the
                       \* parameter `words` of Sentence.__init__
    sentences,         \* the Sentence objects built so far, in order
    documents_parsed,  \* number of calls of parse that have ended
    parse_pc           \* "between", "in_document", "in_sentence",
                       \* "TypeError"

parseVars == <<default_words, sentences, documents_parsed, parse_pc>>

VARIABLES
    \* ---- pipeline(file_set) of pipeline.py (one worker's call) ----
    file_set_size,     \* len(file_set)
    files_done,        \* number of files the for loop has finished
    sentences_done,    \* number of sentences of the current file tagged
    start_id,          \* the local start_id
    file_ids,          \* the ids given to the spans of the current file, in order
    earlier_spans,     \* number of spans emitted in the files before it
    pipe_pc            \* "for_file", "for_sentence", "returned"

pipeVars == <<file_set_size, files_done, sentences_done, start_id, file_ids,
              earlier_spans, pipe_pc>>

VARIABLES
    \* ---- i2b2Writer.write, then i2b2FileReader._get_annotations ----
    written_element,   \* the predicted annotation handed to the writer
    left_chars,        \* the document's text_offset, and left_chars on re-reading
    xml_tag,           \* the tag of the file: its name and its start and end attributes
    read_annotation,   \* the annotation read back: (tag, attributes, (start, end))
    standoff_pc        \* "element", "written", "read", "AttributeError",
                       \* "file", "read_file"

standoffVars == <<written_element, left_chars, xml_tag, read_annotation,
                  standoff_pc>>

VARIABLES
    \* ---- main() of pipeline.py: the chunks and the worker pool ----
    files,             \* the list of input files
    processes_num,     \* multiprocessing.cpu_count()*2
    chunk_dim,         \* the chunk size
    chunk_i,           \* loop variable i of range(0, len(files), chunk_dim)
    file_chunks,       \* the chunks built so far, in order
    tasks_run,         \* number of chunks whose pipeline(chunk) has returned
    last_worker,       \* the worker that processed the latest file
    chunk_progress,    \* per chunk, how many of its files its worker has
                       \* processed
    chunk_worker,      \* per chunk in progress, the worker that runs it
    processed,         \* per file, how many times a worker processed it
    chunk_pc           \* "main", "chunking", "pool_map", "mapped"

chunkVars == <<files, processes_num, chunk_dim, chunk_i, file_chunks,
               tasks_run, last_worker, chunk_progress, chunk_worker,
               processed, chunk_pc>>

VARIABLES
    \* TempEval3FileReader._get_annotations and
    \* WikiWarsInLineFileReader._get_annotations, src/mantime/readers.py
    ann_reader,        \* "TempEval3" or "WikiWars"
    root_text,         \* the text of TEXT before its first child, or None
    children,          \* the child elements of TEXT, in document order
    initial_offset,    \* the argument the call was given for it
    running_offset,    \* local running_offset, the running offset
    returned_annotations, \* local annotations
    event_index,       \* number of iterparse events handled so far
    ann_pc             \* "iterparse", "returned", "TypeError"

annVars == <<ann_reader, root_text, children, initial_offset, running_offset,
             returned_annotations, event_index, ann_pc>>

VARIABLES
    \* TempEval3FileReader.parse, src/mantime/readers.py lines 139-197, then
    \* TempEval3Writer.write, src/mantime/writers.py lines 96-116
    xml_root_text,     \* the text of TEXT before its first child, or None
    xml_children,      \* the child elements of TEXT, in document order
    xml_text_tail,     \* what follows </TEXT> in the file, up to the next tag
    text_string,       \* local text_string, then document.text
    parse_left_chars,  \* local left_chars
    document_text_offset, \* document.text_offset
    document_gold_annotations, \* document.gold_annotations
    stanford_words,    \* the words of stanford_tree, in order
    document_words,    \* the Word objects appended so far
    words_read,        \* how many words of the parse the word loop has taken
    offset_begin,      \* local offset_begin of the word loop
    offset_end,        \* local offset_end of the word loop
    read_pc            \* "parse", "words", "parsed", "TypeError",
                       \* "IndexError"

readVars == <<xml_root_text, xml_children, xml_text_tail, text_string, parse_left_chars,
              document_text_offset, document_gold_annotations,
              stanford_words, document_words, words_read, offset_begin,
              offset_end, read_pc>>

VARIABLES
    \* Memoize, src/mantime/utilities.py lines 178-190
    memo,              \* self.memo: the stored value of every stored key
    memo_key,          \* local key of the innermost call in progress
    memo_outer,        \* the keys of the calls whose self.function is
                       \* running and has called the memoized function
                       \* again, outermost first
    memo_result,       \* what the latest finished call returned or raised
    memo_calls,        \* number of calls of the memoized function so far
    function_calls,    \* per key: how often self.function was invoked and
                       \* returned, how often it was invoked and raised,
                       \* how often the key was called, and how often it
                       \* was called while a call with it was running
    memo_pc            \* "ready", "lookup", "invoke", "returned", "raised"

memoVars == <<memo, memo_key, memo_outer, memo_result, memo_calls,
              function_calls, memo_pc>>

renderVars == <<doc_text, text_offset, predicted_annotations, segments,
                element_index, blank_i, rendered_text, render_pc>>

\* the groups of the readers' and utilities' remaining components
lastVars == <<annVars, readVars, memoVars>>

\* the groups of the codec components, and of the components around them
codecVars == <<searchVars, labelVars, docVars, gazVars>>
laterVars == <<renderVars, batchVars, parseVars, pipeVars, standoffVars,
               chunkVars, lastVars>>

\* everything but one group
notRenderVars == <<codecVars, batchVars, parseVars, pipeVars, standoffVars,
    chunkVars, lastVars>>
notBatchVars == <<codecVars, renderVars, parseVars, pipeVars, standoffVars,
    chunkVars, lastVars>>
notParseVars == <<codecVars, renderVars, batchVars, pipeVars, standoffVars,
    chunkVars, lastVars>>
notPipeVars == <<codecVars, renderVars, batchVars, parseVars, standoffVars,
    chunkVars, lastVars>>
notStandoffVars == <<codecVars, renderVars, batchVars, parseVars, pipeVars,
    chunkVars, lastVars>>
notChunkVars == <<codecVars, renderVars, batchVars, parseVars, pipeVars,
    standoffVars, lastVars>>

notAnnVars == <<codecVars, renderVars, batchVars, parseVars, pipeVars,
    standoffVars, chunkVars, readVars, memoVars>>
notReadVars == <<codecVars, renderVars, batchVars, parseVars, pipeVars,
    standoffVars, chunkVars, annVars, memoVars>>
notMemoVars == <<codecVars, renderVars, batchVars, parseVars, pipeVars,
    standoffVars, chunkVars, annVars, readVars>>

vars == <<codecVars, laterVars>>

\* the idle values of each group of variables
SearchIdle ==
    /\ sequence = <<>> /\ key = <<>> /\ end = FALSE /\ pc = "idle"
    /\ shifts_table = <<>> /\ shift = 0 /\ current_position = 0
    /\ start_position = 0 /\ matched_lenght = 0 /\ consumed = 0
    /\ yielded = <<>>

LabelIdle ==
    /\ start_token = 0 /\ end_token = 0 /\ annotations = <<>>
    /\ annotation_format = <<>> /\ class_label = "" /\ label_pc = "idle"

DocIdle ==
    /\ words = <<>> /\ gold_annotations = <<>> /\ doc_format = <<>>
    /\ doc_annotation_format = <<>> /\ doc_pc = "idle" /\ dec_labels = <<>>
    /\ dec_index = 0
    /\ dec_state = <<"idle">> /\ dec_counters = <<>> /\ rendered_spans = <<>>

GazIdle ==
    /\ sentence = <<>> /\ gazetteer = <<>> /\ case_sensitive = FALSE
    /\ gaz_result = <<>> /\ gaz_pc = "idle"

RenderIdle ==
    /\ doc_text = <<>> /\ text_offset = 0 /\ predicted_annotations = <<>>
    /\ segments = <<>> /\ element_index = 0 /\ blank_i = 0
    /\ rendered_text = <<>> /\ render_pc = "idle"

BatchIdle ==
    /\ mode = "idle" /\ calls = 0 /\ input_files = <<>> /\ file_index = 0
    /\ self_documents = <<>> /\ trained_documents = <<>> /\ logged = <<>>
    /\ output_files = <<>> /\ batch_pc = "idle"

ParseIdle ==
    /\ default_words = <<>> /\ sentences = <<>>
    /\ documents_parsed = 0 /\ parse_pc = "idle"

PipeIdle ==
    /\ file_set_size = 0 /\ files_done = 0 /\ sentences_done = 0
    /\ start_id = 0 /\ file_ids = <<>> /\ earlier_spans = 0
    /\ pipe_pc = "idle"

StandoffIdle ==
    /\ written_element = <<>> /\ left_chars = 0 /\ xml_tag = <<>>
    /\ read_annotation = <<>> /\ standoff_pc = "idle"

ChunkIdle ==
    /\ files = <<>> /\ processes_num = 0 /\ chunk_dim = 0 /\ chunk_i = 0
    /\ file_chunks = <<>> /\ tasks_run = 0 /\ last_worker = 0
    /\ chunk_progress = <<>> /\ chunk_worker = <<>>
    /\ processed = <<>> /\ chunk_pc = "idle"

AnnIdle ==
    /\ ann_reader = "idle" /\ root_text = <<>> /\ children = <<>>
    /\ initial_offset = 0 /\ running_offset = 0
    /\ returned_annotations = <<>> /\ event_index = 0 /\ ann_pc = "idle"

ReadIdle ==
    /\ xml_root_text = <<>> /\ xml_children = <<>> /\ text_string = <<>>
    /\ xml_text_tail = <<>>
    /\ parse_left_chars = 0 /\ document_text_offset = 0
    /\ document_gold_annotations = <<>> /\ stanford_words = <<>>
    /\ document_words = <<>> /\ words_read = 0
    /\ offset_begin = 0 /\ offset_end = 0
    /\ read_pc = "idle"

MemoIdle ==
    /\ memo = <<>> /\ memo_key = <<>> /\ memo_outer = <<>>
    /\ memo_result = <<>>
    /\ memo_calls = 0 /\ function_calls = <<>> /\ memo_pc = "idle"

LastIdle == AnnIdle /\ ReadIdle /\ MemoIdle

CodecIdle == SearchIdle /\ LabelIdle /\ DocIdle /\ GazIdle
LaterIdle ==
    RenderIdle /\ BatchIdle /\ ParseIdle /\ PipeIdle /\ StandoffIdle
    /\ ChunkIdle /\ LastIdle

NotRenderIdle == CodecIdle /\ BatchIdle /\ ParseIdle /\ PipeIdle /\ StandoffIdle
    /\ ChunkIdle /\ LastIdle
NotBatchIdle == CodecIdle /\ RenderIdle /\ ParseIdle /\ PipeIdle /\ StandoffIdle
    /\ ChunkIdle /\ LastIdle
NotParseIdle == CodecIdle /\ RenderIdle /\ BatchIdle /\ PipeIdle /\ StandoffIdle
    /\ ChunkIdle /\ LastIdle
NotPipeIdle == CodecIdle /\ RenderIdle /\ BatchIdle /\ ParseIdle /\ StandoffIdle
    /\ ChunkIdle /\ LastIdle
NotStandoffIdle == CodecIdle /\ RenderIdle /\ BatchIdle /\ ParseIdle /\ PipeIdle
    /\ ChunkIdle /\ LastIdle
NotChunkIdle ==
    CodecIdle /\ RenderIdle /\ BatchIdle /\ ParseIdle /\ PipeIdle
    /\ StandoffIdle /\ LastIdle
NotAnnIdle ==
    CodecIdle /\ RenderIdle /\ BatchIdle /\ ParseIdle /\ PipeIdle
    /\ StandoffIdle /\ ChunkIdle /\ ReadIdle /\ MemoIdle
NotReadIdle ==
    CodecIdle /\ RenderIdle /\ BatchIdle /\ ParseIdle /\ PipeIdle
    /\ StandoffIdle /\ ChunkIdle /\ AnnIdle /\ MemoIdle
NotMemoIdle ==
    CodecIdle /\ RenderIdle /\ BatchIdle /\ ParseIdle /\ PipeIdle
    /\ StandoffIdle /\ ChunkIdle /\ AnnIdle /\ ReadIdle

-----------------------------------------------------------------------------
(* Bounds of the model *)

\* longest sequence handed to search_subsequence
MaxSeqLen == 4
\* longest key handed to search_subsequence
MaxKeyLen == 3

\* the symbols sequences and keys are made of
Symbols == {"a", "b"}

\* all sequences over S of length at most n
SeqsUpTo(S, n) == UNION {[1..k -> S] : k \in 0..n}

-----------------------------------------------------------------------------
(* search_subsequence, src/mantime/utilities.py:80-120 *)

\* a table of shift amounts filled with 2 instead of 1
InitialShiftsTableOfTwos(k) == [i \in 1..(Len(k) + 1) |-> 2]

\* shifts_table = [1] * (len(key) + 1)
InitialShiftsTable(k) == [i \in 1..(Len(k) + 1) |-> 1]

\* a table loop that stops one position early (shift < current_position)
TableLoopConditionOffByOne(k, sh, cp) ==
    IF sh < cp THEN k[cp + 1] # k[cp - sh + 1] ELSE FALSE

\* the table loop's while condition:
\*   shift <= current_position and key[current_position] != key[current_position-shift]
TableLoopCondition(k, sh, cp) ==
    IF sh <= cp THEN k[cp + 1] # k[cp - sh + 1] ELSE FALSE

\* the search loop's while condition:
\*   matched_lenght == len(key) or matched_lenght >= 0 and key[matched_lenght] != item
SearchLoopCondition(k, ml, item) ==
    IF ml = Len(k) THEN TRUE
    ELSE IF ml >= 0 THEN k[ml + 1] # item
    ELSE FALSE

\* the value of one yield
YieldValue(sp, k, e) ==
    IF e THEN <<sp, sp + Len(k) - 1>> ELSE sp

SearchInit ==
    /\ sequence \in SeqsUpTo(Symbols, MaxSeqLen)
    /\ key \in SeqsUpTo(Symbols, MaxKeyLen)
    /\ end \in BOOLEAN
    /\ pc = "start"
    /\ shifts_table = <<>> /\ shift = 0 /\ current_position = 0
    /\ start_position = 0 /\ matched_lenght = 0 /\ consumed = 0
    /\ yielded = <<>>
    /\ LabelIdle /\ DocIdle /\ GazIdle /\ LaterIdle

\* lines 94-96: assert len(key) > 0 fails for an empty key
KeyAssertFails ==
    /\ pc = "start"
    /\ Len(key) = 0
    /\ pc' = "AssertionError"
    /\ UNCHANGED <<sequence, key, end, shifts_table, shift, current_position,
                   start_position, matched_lenght, consumed, yielded>>
    /\ UNCHANGED <<labelVars, docVars, gazVars, laterVars>>

\* lines 94-101: the asserts pass; shifts_table = [1]*(len(key)+1); shift = 1
BeginTable ==
    /\ pc = "start"
    /\ Len(key) > 0
    /\ shifts_table' = InitialShiftsTable(key)
    /\ shift' = 1
    /\ current_position' = 0
    /\ pc' = "table_while"
    /\ UNCHANGED <<sequence, key, end, start_position, matched_lenght,
                   consumed, yielded>>
    /\ UNCHANGED <<labelVars, docVars, gazVars, laterVars>>

\* lines 103-105: one iteration of the table loop's while
TableShift ==
    /\ pc = "table_while"
    /\ TableLoopCondition(key, shift, current_position)
    /\ shift' = shift + shifts_table[current_position - shift + 1]
    /\ UNCHANGED <<sequence, key, end, pc, shifts_table, current_position,
                   start_position, matched_lenght, consumed, yielded>>
    /\ UNCHANGED <<labelVars, docVars, gazVars, laterVars>>

\* line 106 and the next turn of the for at line 102; after the last
\* position, lines 108-109 start the search
TableStore ==
    /\ pc = "table_while"
    /\ ~TableLoopCondition(key, shift, current_position)
    /\ shifts_table' = [shifts_table EXCEPT ![current_position + 2] = shift]
    /\ IF current_position + 1 < Len(key)
       THEN /\ current_position' = current_position + 1
            /\ pc' = "table_while"
            /\ UNCHANGED <<start_position, matched_lenght>>
       ELSE /\ current_position' = current_position
            /\ start_position' = 0
            /\ matched_lenght' = 0
            /\ pc' = "search_for"
    /\ UNCHANGED <<sequence, key, end, shift, consumed, yielded>>
    /\ UNCHANGED <<labelVars, docVars, gazVars, laterVars>>

\* line 110: the for loop takes the next item of the sequence
NextItem ==
    /\ pc = "search_for"
    /\ consumed < Len(sequence)
    /\ consumed' = consumed + 1
    /\ pc' = "search_while"
    /\ UNCHANGED <<sequence, key, end, shifts_table, shift, current_position,
                   start_position, matched_lenght, yielded>>
    /\ UNCHANGED <<labelVars, docVars, gazVars, laterVars>>

\* line 110: the sequence is exhausted, the generator ends
SearchDone ==
    /\ pc = "search_for"
    /\ consumed = Len(sequence)
    /\ pc' = "done"
    /\ UNCHANGED <<sequence, key, end, shifts_table, shift, current_position,
                   start_position, matched_lenght, consumed, yielded>>
    /\ UNCHANGED <<labelVars, docVars, gazVars, laterVars>>

\* an iteration of the search loop's while that shifts by nothing
SearchShiftInPlace ==
    /\ pc = "search_while"
    /\ SearchLoopCondition(key, matched_lenght, sequence[consumed])
    /\ UNCHANGED <<sequence, key, end, pc, shifts_table, shift,
                   current_position, start_position, matched_lenght,
                   consumed, yielded>>
    /\ UNCHANGED <<labelVars, docVars, gazVars, laterVars>>

\* lines 111-113: the condition of the search loop's while holds, and
\* start_position += shifts_table[matched_lenght]
SearchShift ==
    /\ pc = "search_while"
    /\ SearchLoopCondition(key, matched_lenght, sequence[consumed])
    /\ start_position' = start_position + shifts_table[matched_lenght + 1]
    /\ pc' = "search_shifted"
    /\ UNCHANGED <<sequence, key, end, shifts_table, shift,
                   current_position, matched_lenght, consumed, yielded>>
    /\ UNCHANGED <<labelVars, docVars, gazVars, laterVars>>

\* line 114: matched_lenght -= shifts_table[matched_lenght], and back to
\* the condition of the while
SearchFallBack ==
    /\ pc = "search_shifted"
    /\ matched_lenght' = matched_lenght - shifts_table[matched_lenght + 1]
    /\ pc' = "search_while"
    /\ UNCHANGED <<sequence, key, end, shifts_table, shift,
                   current_position, start_position, consumed, yielded>>
    /\ UNCHANGED <<labelVars, docVars, gazVars, laterVars>>

\* lines 115-120: matched_lenght += 1, and a yield when the key is matched
SearchAdvance ==
    /\ pc = "search_while"
    /\ ~SearchLoopCondition(key, matched_lenght, sequence[consumed])
    /\ matched_lenght' = matched_lenght + 1
    /\ yielded' = IF matched_lenght + 1 = Len(key)
                  THEN Append(yielded, YieldValue(start_position, key, end))
                  ELSE yielded
    /\ pc' = "search_for"
    /\ UNCHANGED <<sequence, key, end, shifts_table, shift, current_position,
                   start_position, consumed>>
    /\ UNCHANGED <<labelVars, docVars, gazVars, laterVars>>

SearchNext ==
    \/ KeyAssertFails
    \/ BeginTable
    \/ TableShift
    \/ TableStore
    \/ NextItem
    \/ SearchDone
    \/ SearchShift
    \/ SearchFallBack
    \/ SearchAdvance

SpecSearch == SearchInit /\ [][SearchNext]_vars

\* the generator iterated to exhaustion: the interpreter goes on running
\* the generator's code for as long as it has a next step
SpecSearchExhausted ==
    SearchInit /\ [][SearchNext]_vars /\ WF_vars(SearchNext)

-----------------------------------------------------------------------------
(* Properties of search_subsequence *)

\* the naive quadratic reference scan: every i, ascending from `from`, with
\* S[i:i+len(K)] == K, as the values a run with flag e yields
RECURSIVE NaiveScanFrom(_, _, _, _)
NaiveScanFrom(S, K, e, from) ==
    IF from + Len(K) > Len(S) THEN <<>>
    ELSE IF SubSeq(S, from + 1, from + Len(K)) = K
         THEN <<YieldValue(from, K, e)>> \o NaiveScanFrom(S, K, e, from + 1)
         ELSE NaiveScanFrom(S, K, e, from + 1)

NaiveScan(S, K, e) == NaiveScanFrom(S, K, e, 0)

\* C1: for a non-empty key the values yielded are, at every moment, the first
\* values of the naive reference scan (every index i with S[i:i+len(K)] == K,
\* once each, ascending, overlapping matches included; the pair
\* (i, i+len(K)-1) with end=True), and when the generator ends they are all
\* of them.
C1_SearchEqualsNaiveScan ==
    Len(key) > 0 =>
        /\ Len(yielded) <= Len(NaiveScan(sequence, key, end))
        /\ yielded = SubSeq(NaiveScan(sequence, key, end), 1, Len(yielded))
        /\ pc = "done" => yielded = NaiveScan(sequence, key, end)

\* C1 witness: the overlapping matches of 'aa' in 'aaaa' are all found
C1_Witness ==
    /\ pc = "done"
    /\ sequence = <<"a", "a", "a", "a">>
    /\ key = <<"a", "a">>
    /\ end = FALSE
    /\ yielded = <<0, 1, 2>>

-----------------------------------------------------------------------------
(* format_annotation, src/mantime/model.py:17-42 *)

\* largest character offset of a token or an annotation
MaxOffset == 3
\* longest annotation list
MaxAnnotations == 2

\* the tag names of the gold annotations
TagNames == {"EVENT", "TIMEX3"}

\* the character ranges (start, end) with start < end
Ranges == {r \in (0..MaxOffset) \X (0..MaxOffset) : r[1] < r[2]}

\* an annotation is the triple (tag, attributes, (start, end)); the
\* attributes are not read by the encoder
Annotation(tag, r) == <<tag, <<>>, r>>

AllAnnotations == {Annotation(t, r) : t \in TagNames, r \in Ranges}

\* the label alphabets: list(annotation_format) of the strings
\* 'OBIEW', 'BIO', 'IO', 'BI' (O left implicit) and 'BO' (no I)
Formats == { <<"O", "B", "I", "E", "W">>,
             <<"B", "I", "O">>,
             <<"I", "O">>,
             <<"B", "I">>,
             <<"B", "O">> }

\* the alphabets handed to store_gold_annotations: 'OBIEW', 'BIO' and 'IO'
DocFormats == { <<"O", "B", "I", "E", "W">>, <<"B", "I", "O">>, <<"I", "O">> }

\* x in list(annotation_format)
InFormat(x, fmt) == \E i \in 1..Len(fmt) : fmt[i] = x

\* a chain that tests the end relation before the whole relation
RelationLabelEndFirst(start_offset, end_offset, st, et) ==
    IF end_offset = et THEN "E"
    ELSE IF <<start_offset, end_offset>> = <<st, et>> THEN "W"
    ELSE IF start_offset = st THEN "B"
    ELSE IF start_offset < st /\ end_offset > et THEN "I"
    ELSE "O"

\* lines 23-36: the if/elif chain run for one annotation
RelationLabel(start_offset, end_offset, st, et) ==
    IF <<start_offset, end_offset>> = <<st, et>> THEN "W"
    ELSE IF end_offset = et THEN "E"
    ELSE IF start_offset = st THEN "B"
    ELSE IF start_offset < st /\ end_offset > et THEN "I"
    ELSE "O"

\* lines 21-36: the for loop from annotation i on (1-based), with the
\* current sequence_label and tag_fired; the result is the pair
\* (sequence_label, tag_fired) the loop ends with.  Every branch but the
\* last one breaks.
RECURSIVE AnnotationLoop(_, _, _, _, _, _)
AnnotationLoop(st, et, anns, i, sequence_label, tag_fired) ==
    IF i > Len(anns) THEN <<sequence_label, tag_fired>>
    ELSE LET tag == anns[i][1]
             start_offset == anns[i][3][1]
             end_offset == anns[i][3][2]
             l == RelationLabel(start_offset, end_offset, st, et)
         IN IF l # "O" THEN <<l, tag>>
            ELSE AnnotationLoop(st, et, anns, i + 1, "O", tag)

\* lines 37-38: a label that is not in the alphabet becomes I
Collapse(sequence_label, fmt) ==
    IF ~InFormat(sequence_label, fmt) THEN "I" ELSE sequence_label

\* lines 17-42; sequence_label starts as None, tag_fired as ''
format_annotation(st, et, anns, fmt) ==
    LET r == AnnotationLoop(st, et, anns, 1, "None", "")
        sequence_label == Collapse(r[1], fmt)
    IN IF sequence_label = "O" THEN sequence_label
       ELSE sequence_label \o "-" \o r[2]

LabelInit ==
    /\ \E r \in Ranges : start_token = r[1] /\ end_token = r[2]
    /\ annotations \in SeqsUpTo(AllAnnotations, MaxAnnotations)
    /\ annotation_format \in Formats
    /\ class_label = ""
    /\ label_pc = "call"
    /\ SearchIdle /\ DocIdle /\ GazIdle /\ LaterIdle

\* one call of format_annotation
FormatAnnotation ==
    /\ label_pc = "call"
    /\ class_label' = format_annotation(start_token, end_token, annotations,
                                        annotation_format)
    /\ label_pc' = "returned"
    /\ UNCHANGED <<start_token, end_token, annotations, annotation_format>>
    /\ UNCHANGED <<searchVars, docVars, gazVars, laterVars>>

LabelNext == FormatAnnotation

SpecLabel == LabelInit /\ [][LabelNext]_vars

-----------------------------------------------------------------------------
(* Properties of format_annotation *)

\* the four relations of an annotation to the token (st, et), each stated on
\* its own
IsWhole(a, st, et) == a[3][1] = st /\ a[3][2] = et
IsEnd(a, st, et) == a[3][2] = et
IsBegin(a, st, et) == a[3][1] = st
IsInside(a, st, et) == a[3][1] < st /\ a[3][2] > et

Related(a, st, et) ==
    IsWhole(a, st, et) \/ IsEnd(a, st, et) \/ IsBegin(a, st, et)
        \/ IsInside(a, st, et)

\* the symbol the priority W, E, B, I gives a related annotation
PrioritySymbol(a, st, et) ==
    CASE IsWhole(a, st, et) -> "W"
      [] ~IsWhole(a, st, et) /\ IsEnd(a, st, et) -> "E"
      [] ~IsEnd(a, st, et) /\ IsBegin(a, st, et) -> "B"
      [] OTHER -> "I"

\* the first annotation of the list, in list order, that is related to the token
FirstRelated(anns, st, et) ==
    CHOOSE i \in 1..Len(anns) :
        /\ Related(anns[i], st, et)
        /\ \A j \in 1..(i - 1) : ~Related(anns[j], st, et)

\* the symbol of a label string: the label is 'O' or '<symbol>-<tag>'
LabelSymbol(l) ==
    IF l = "O" THEN "O"
    ELSE CHOOSE s \in {"B", "I", "E", "W"} :
             \E t \in TagNames \cup {""} : l = s \o "-" \o t

\* the tag of a label string '<symbol>-<tag>'
LabelTag(l) ==
    CHOOSE t \in TagNames \cup {""} :
        \E s \in {"B", "I", "E", "W"} : l = s \o "-" \o t

\* C2: with the alphabet 'OBIEW' and a non-empty annotation list of which
\* some annotation is related to the token, the label is decided by the
\* first related annotation in list order alone: its symbol by the priority
\* W, E, B, I and its tag, whatever the later annotations are.
C2_FirstRelatedAnnotationDecides ==
    ( /\ label_pc = "returned"
      /\ annotation_format = <<"O", "B", "I", "E", "W">>
      /\ \E i \in 1..Len(annotations) :
            Related(annotations[i], start_token, end_token) )
    => LET a == annotations[FirstRelated(annotations, start_token, end_token)]
       IN class_label =
              PrioritySymbol(a, start_token, end_token) \o "-" \o a[1]

\* C2 witness: the first annotation ends with the token (E) and a later one
\* of another tag coincides with it (W); the label is E with the first tag
C2_Witness ==
    /\ label_pc = "returned"
    /\ annotation_format = <<"O", "B", "I", "E", "W">>
    /\ start_token = 1 /\ end_token = 2
    /\ annotations = << Annotation("EVENT", <<0, 2>>),
                        Annotation("TIMEX3", <<1, 2>>) >>
    /\ class_label = "E-EVENT"

\* C3: for every alphabet that lists O, the symbol of the returned label is
\* a member of the declared alphabet.
C3_SymbolInDeclaredAlphabet ==
    (label_pc = "returned" /\ InFormat("O", annotation_format))
    => InFormat(LabelSymbol(class_label), annotation_format)

\* C6: when no annotation of the list is related to the token (the empty
\* list included) and the alphabet lists O, the label is exactly 'O'.
C6_UnrelatedTokenIsO ==
    ( /\ label_pc = "returned"
      /\ InFormat("O", annotation_format)
      /\ \A i \in 1..Len(annotations) :
            ~Related(annotations[i], start_token, end_token) )
    => class_label = "O"

\* C7: for every declared alphabet, also one that leaves O implicit, a token
\* to which no annotation of a non-empty list is related is labelled 'O'.
C7_OIsNeverReplaced ==
    ( /\ label_pc = "returned"
      /\ annotations # <<>>
      /\ \A i \in 1..Len(annotations) :
            ~Related(annotations[i], start_token, end_token) )
    => class_label = "O"

-----------------------------------------------------------------------------
(* Document.store_gold_annotations, src/mantime/model.py:59-68, and the    *)
(* label-to-span decoder of the design document, section 4.4               *)

\* most words of a generated document
MaxTokens == 3

\* a Word after Word.__init__ (src/mantime/model.py:101-109): its offsets and
\* an empty attributes dictionary
Word(r) == [character_offset_begin |-> r[1],
            character_offset_end |-> r[2],
            attributes |-> <<>>]

\* the token lists: ranges in ascending order that do not overlap
TokenLists ==
    {ts \in SeqsUpTo(Ranges, MaxTokens) :
        \A i \in 1..(Len(ts) - 1) : ts[i][2] <= ts[i + 1][1]}

\* the document "He left on Monday" with the gold span EVENT over "left"
ScenarioTokens == << <<0, 2>>, <<3, 7>>, <<8, 10>>, <<11, 17>> >>
ScenarioGold == << Annotation("EVENT", <<3, 7>>) >>

\* lines 61-67: every word of every sentence gets its CLASS attribute
store_gold_annotations(ws, gold, fmt) ==
    [i \in 1..Len(ws) |->
        [ws[i] EXCEPT !.attributes =
            [CLASS |-> format_annotation(ws[i].character_offset_begin,
                                         ws[i].character_offset_end,
                                         gold, fmt)]]]

\* the sequence ids of a document start at 1 for every tag name
InitialCounters == [t \in TagNames \cup {""} |-> 1]

DocInit ==
    /\ \/ /\ \E ts \in TokenLists : words = [i \in 1..Len(ts) |-> Word(ts[i])]
          /\ gold_annotations \in SeqsUpTo(AllAnnotations, MaxAnnotations)
       \/ /\ words = [i \in 1..Len(ScenarioTokens) |-> Word(ScenarioTokens[i])]
          /\ gold_annotations = ScenarioGold
    /\ doc_format \in DocFormats
    /\ doc_annotation_format = <<>>
    /\ doc_pc = "parsed"
    /\ dec_labels = <<>>
    /\ dec_index = 0
    /\ dec_state = <<"idle">>
    /\ dec_counters = InitialCounters
    /\ rendered_spans = <<>>
    /\ SearchIdle /\ LabelIdle /\ GazIdle /\ LaterIdle

\* Document.store_gold_annotations(annotation_format)
StoreGoldAnnotations ==
    /\ doc_pc = "parsed"
    /\ words' = store_gold_annotations(words, gold_annotations, doc_format)
    /\ doc_annotation_format' = doc_format
    /\ doc_pc' = "stored"
    /\ UNCHANGED <<gold_annotations, doc_format, dec_labels, dec_index,
                   dec_state, dec_counters, rendered_spans>>
    /\ UNCHANGED <<searchVars, labelVars, gazVars, laterVars>>

\* the decoder is handed the labels the encoder stored, one per token
BeginDecode ==
    /\ doc_pc = "stored"
    /\ dec_labels' = [i \in 1..Len(words) |-> words[i].attributes.CLASS]
    /\ doc_pc' = "decoding"
    /\ UNCHANGED <<words, gold_annotations, doc_format, doc_annotation_format,
                   dec_index, dec_state, dec_counters, rendered_spans>>
    /\ UNCHANGED <<searchVars, labelVars, gazVars, laterVars>>

\* the Rendered Span a collecting state closes into, with sequence id n
RenderedSpan(state, n) ==
    [tag |-> state[2], id |-> n, start |-> state[3], end |-> state[4]]

\* a decoder that also closes the open span at every B label
DecodeTokenClosingAtB ==
    /\ doc_pc = "decoding"
    /\ dec_index < Len(words)
    /\ LET w == words[dec_index + 1]
           L == dec_labels[dec_index + 1]
           opened == <<"collecting", LabelTag(L),
                       w.character_offset_begin, w.character_offset_end>>
       IN IF dec_state[1] = "idle"
          THEN /\ dec_state' = IF L = "O" THEN <<"idle">> ELSE opened
               /\ UNCHANGED <<dec_counters, rendered_spans>>
          ELSE IF L # "O" /\ LabelTag(L) = dec_state[2] /\ LabelSymbol(L) # "B"
          THEN /\ dec_state' = [dec_state EXCEPT ![4] = w.character_offset_end]
               /\ UNCHANGED <<dec_counters, rendered_spans>>
          ELSE /\ rendered_spans' =
                      Append(rendered_spans,
                             RenderedSpan(dec_state, dec_counters[dec_state[2]]))
               /\ dec_counters' =
                      [dec_counters EXCEPT ![dec_state[2]] = @ + 1]
               /\ dec_state' = IF L = "O" THEN <<"idle">> ELSE opened
    /\ dec_index' = dec_index + 1
    /\ UNCHANGED <<words, gold_annotations, doc_format, doc_annotation_format,
                   doc_pc, dec_labels>>
    /\ UNCHANGED <<searchVars, labelVars, gazVars, laterVars>>

\* section 4.4: the transition of the decoder for one token with label L
DecodeToken ==
    /\ doc_pc = "decoding"
    /\ dec_index < Len(words)
    /\ LET w == words[dec_index + 1]
           L == dec_labels[dec_index + 1]
           opened == <<"collecting", LabelTag(L),
                       w.character_offset_begin, w.character_offset_end>>
       IN IF dec_state[1] = "idle"
          THEN /\ dec_state' = IF L = "O" THEN <<"idle">> ELSE opened
               /\ UNCHANGED <<dec_counters, rendered_spans>>
          ELSE IF L # "O" /\ LabelTag(L) = dec_state[2]
          THEN /\ dec_state' = [dec_state EXCEPT ![4] = w.character_offset_end]
               /\ UNCHANGED <<dec_counters, rendered_spans>>
          ELSE /\ rendered_spans' =
                      Append(rendered_spans,
                             RenderedSpan(dec_state, dec_counters[dec_state[2]]))
               /\ dec_counters' =
                      [dec_counters EXCEPT ![dec_state[2]] = @ + 1]
               /\ dec_state' = IF L = "O" THEN <<"idle">> ELSE opened
    /\ dec_index' = dec_index + 1
    /\ UNCHANGED <<words, gold_annotations, doc_format, doc_annotation_format,
                   doc_pc, dec_labels>>
    /\ UNCHANGED <<searchVars, labelVars, gazVars, laterVars>>

\* section 4.4: the end of the document closes an open span
DecodeEnd ==
    /\ doc_pc = "decoding"
    /\ dec_index = Len(words)
    /\ IF dec_state[1] = "collecting"
       THEN /\ rendered_spans' =
                   Append(rendered_spans,
                          RenderedSpan(dec_state, dec_counters[dec_state[2]]))
            /\ dec_counters' = [dec_counters EXCEPT ![dec_state[2]] = @ + 1]
       ELSE UNCHANGED <<dec_counters, rendered_spans>>
    /\ dec_state' = <<"idle">>
    /\ doc_pc' = "decoded"
    /\ UNCHANGED <<words, gold_annotations, doc_format, doc_annotation_format,
                   dec_labels, dec_index>>
    /\ UNCHANGED <<searchVars, labelVars, gazVars, laterVars>>

DocNext ==
    \/ StoreGoldAnnotations
    \/ BeginDecode
    \/ DecodeToken
    \/ DecodeEnd

SpecDoc == DocInit /\ [][DocNext]_vars

-----------------------------------------------------------------------------
(* Properties of the encoder and the decoder over a document *)

\* the gold spans are pairwise non-overlapping
GoldNonOverlapping ==
    \A i, j \in 1..Len(gold_annotations) :
        i # j => \/ gold_annotations[i][3][2] <= gold_annotations[j][3][1]
                 \/ gold_annotations[j][3][2] <= gold_annotations[i][3][1]

\* the token boundaries align with the span boundaries: every span starts
\* where a token starts and ends where a token ends
GoldAligned ==
    \A i \in 1..Len(gold_annotations) :
        /\ \E k \in 1..Len(words) :
              words[k].character_offset_begin = gold_annotations[i][3][1]
        /\ \E k \in 1..Len(words) :
              words[k].character_offset_end = gold_annotations[i][3][2]

\* the (tag, start, end) triples of the gold spans and of the decoded spans
GoldTriples ==
    {<<gold_annotations[i][1], gold_annotations[i][3][1],
       gold_annotations[i][3][2]>> : i \in 1..Len(gold_annotations)}

DecodedTriples ==
    {<<rendered_spans[i].tag, rendered_spans[i].start, rendered_spans[i].end>> :
        i \in 1..Len(rendered_spans)}

\* the labels store_gold_annotations gave the words, in order
ClassLabels == [i \in 1..Len(words) |-> words[i].attributes.CLASS]

\* C4: round trip: for a document whose gold spans are pairwise
\* non-overlapping and aligned with the token boundaries, decoding the labels
\* of the encoder gives back exactly the gold (tag, start, end) triples, one
\* decoded span for each.
C4_RoundTrip ==
    (doc_pc = "decoded" /\ GoldNonOverlapping /\ GoldAligned)
    => /\ DecodedTriples = GoldTriples
       /\ Len(rendered_spans) = Len(gold_annotations)

\* C5: under the alphabet 'BIO' the tokens (0,2),(3,7),(8,10),(11,17) with
\* the single gold span EVENT (3,7) are labelled O, B-EVENT, O, O.
C5_ScenarioLabels ==
    ( /\ doc_pc = "stored"
      /\ doc_format = <<"B", "I", "O">>
      /\ Len(words) = Len(ScenarioTokens)
      /\ \A i \in 1..Len(words) :
            /\ words[i].character_offset_begin = ScenarioTokens[i][1]
            /\ words[i].character_offset_end = ScenarioTokens[i][2]
      /\ gold_annotations = ScenarioGold )
    => ClassLabels = <<"O", "B-EVENT", "O", "O">>

-----------------------------------------------------------------------------
(* search_subsequence run to exhaustion, as its callers use it,            *)
(* src/mantime/utilities.py:94-120                                         *)

\* lines 103-105: the while of the table loop; the result is the final shift
RECURSIVE TableWhile(_, _, _, _)
TableWhile(k, table, sh, cp) ==
    IF TableLoopCondition(k, sh, cp)
    THEN TableWhile(k, table, sh + table[cp - sh + 1], cp)
    ELSE sh

\* lines 102-106: the table loop from current_position cp on
RECURSIVE TableFor(_, _, _, _)
TableFor(k, table, sh, cp) ==
    IF cp >= Len(k) THEN table
    ELSE LET sh2 == TableWhile(k, table, sh, cp)
         IN TableFor(k, [table EXCEPT ![cp + 2] = sh2], sh2, cp + 1)

\* lines 100-106
BuildShiftsTable(k) == TableFor(k, InitialShiftsTable(k), 1, 0)

\* lines 111-114: the while of the search loop; the result is the pair
\* (start_position, matched_lenght) it ends with
RECURSIVE SearchWhile(_, _, _, _, _)
SearchWhile(k, table, sp, ml, item) ==
    IF SearchLoopCondition(k, ml, item)
    THEN SearchWhile(k, table, sp + table[ml + 1], ml - table[ml + 1], item)
    ELSE <<sp, ml>>

\* lines 110-120: the search loop from item n+1 on; out are the values
\* yielded so far
RECURSIVE SearchFor(_, _, _, _, _, _, _, _)
SearchFor(S, k, e, table, sp, ml, n, out) ==
    IF n >= Len(S) THEN out
    ELSE LET r == SearchWhile(k, table, sp, ml, S[n + 1])
             ml2 == r[2] + 1
         IN SearchFor(S, k, e, table, r[1], ml2, n + 1,
                      IF ml2 = Len(k)
                      THEN Append(out, YieldValue(r[1], k, e))
                      ELSE out)

\* the outcome of a call: a value returned, or an AssertionError raised
Returned(v) == [raised |-> FALSE, value |-> v]
AssertionError == [raised |-> TRUE, value |-> "AssertionError"]

\* the generator without the assert of line 96: line 97 returns, and the
\* caller sees an empty result
search_subsequence_without_assert(S, K, e) ==
    IF Len(K) = 0 THEN Returned(<<>>)
    ELSE Returned(SearchFor(S, K, e, BuildShiftsTable(K), 0, 0, 0, <<>>))

\* list(search_subsequence(S, K, end=e)): the values yielded, or the
\* AssertionError of the assert on the key
search_subsequence(S, K, e) ==
    IF Len(K) = 0 THEN AssertionError
    ELSE Returned(SearchFor(S, K, e, BuildShiftsTable(K), 0, 0, 0, <<>>))

-----------------------------------------------------------------------------
(* apply_gazetteer, matching_gazetteer and __format,                       *)
(* src/mantime/utilities.py:123-168                                        *)

\* longest sentence
MaxSentenceLen == 3
\* longest gazetteer entry
MaxEntryLen == 2
\* most entries of a gazetteer
MaxGazetteer == 2

\* the symbols of sentences and entries: a lower-case and an upper-case form
\* of the same letter (a character of a string for apply_gazetteer, a word
\* form for matching_gazetteer)
CasedSymbols == {"m", "M"}

\* str.lower() on one symbol, and on a whole text
LowerSymbol(c) == IF c = "M" THEN "m" ELSE c
Lower(text) == [i \in 1..Len(text) |-> LowerSymbol(text[i])]

\* line 128: case = lambda text: text.lower() if case_sensitive else text
Case(text, cs) == IF cs THEN Lower(text) ELSE text

\* pair comparison as Python compares tuples: (a, b) <= (c, d)
PairLeq(p, q) == p[1] < q[1] \/ (p[1] = q[1] /\ p[2] <= q[2])

\* sorted(indexes) for a list of pairs: insertion of x into a sorted list
RECURSIVE InsertSorted(_, _)
InsertSorted(x, s) ==
    IF s = <<>> THEN <<x>>
    ELSE IF PairLeq(x, Head(s)) THEN <<x>> \o s
    ELSE <<Head(s)>> \o InsertSorted(x, Tail(s))

RECURSIVE SortedPairs(_)
SortedPairs(s) ==
    IF s = <<>> THEN <<>> ELSE InsertSorted(Head(s), SortedPairs(Tail(s)))

\* lines 129-132: the loop over the gazetteer from entry i on; indexes are
\* the pairs collected so far, or the error raised
RECURSIVE ApplyLoop(_, _, _, _, _)
ApplyLoop(sent, gaz, cs, i, indexes) ==
    IF i > Len(gaz) THEN indexes
    ELSE LET found == search_subsequence(sent, Case(gaz[i], cs), TRUE)
         IN IF found.raised THEN AssertionError
            ELSE ApplyLoop(sent, gaz, cs, i + 1,
                           Returned(indexes.value \o found.value))

\* lines 123-133
apply_gazetteer(sent, gaz, cs) ==
    LET indexes == ApplyLoop(Case(sent, cs), gaz, cs, 1, Returned(<<>>))
    IN IF indexes.raised THEN AssertionError
       ELSE Returned(SortedPairs(indexes.value))

\* a range that takes one index more: range(start, end + 1)
CoveredOneMore(subsequence_start, gazetteer_item) ==
    subsequence_start..(subsequence_start + Len(gazetteer_item))

\* lines 143-144: range(subsequence_start, subsequence_end)
Covered(subsequence_start, gazetteer_item) ==
    subsequence_start..(subsequence_start + Len(gazetteer_item) - 1)

\* lines 139-144: the loop over the gazetteer from entry i on; matchings is
\* the set collected so far, or the error raised
RECURSIVE MatchingLoop(_, _, _, _)
MatchingLoop(word_forms, gaz, i, matchings) ==
    IF i > Len(gaz) THEN matchings
    ELSE LET subsequences == search_subsequence(word_forms, gaz[i], FALSE)
         IN IF subsequences.raised THEN AssertionError
            ELSE MatchingLoop(word_forms, gaz, i + 1,
                     Returned(matchings.value \cup
                         UNION {Covered(subsequences.value[j], gaz[i]) :
                                    j \in 1..Len(subsequences.value)}))

\* sorted(matching_elements) for a set of integers
RECURSIVE SortedElements(_)
SortedElements(s) ==
    IF s = {} THEN <<>>
    ELSE LET m == CHOOSE x \in s : \A y \in s : x <= y
         IN <<m>> \o SortedElements(s \ {m})

\* lines 157-165: the loop of __format from index on, over the sorted
\* matching elements still to come
RECURSIVE FormatLoop(_, _, _, _)
FormatLoop(index, length, matching_elements, result) ==
    IF index >= length THEN result
    ELSE IF matching_elements # <<>> /\ index = Head(matching_elements)
    THEN FormatLoop(index + 1, length, Tail(matching_elements),
                    Append(result, "I"))
    ELSE FormatLoop(index + 1, length, matching_elements, Append(result, "O"))

\* a loop that stops one index early: xrange(length - 1)
FormatShort(matching_elements, length) ==
    IF matching_elements # {}
    THEN Returned(FormatLoop(0, length - 1,
                             SortedElements(matching_elements), <<>>))
    ELSE Returned([i \in 1..length |-> "O"])

\* lines 148-168: __format(matching_elements, length)
__format(matching_elements, length) ==
    IF matching_elements # {}
    THEN IF \E x \in matching_elements : x > length THEN AssertionError
         ELSE Returned(FormatLoop(0, length,
                                  SortedElements(matching_elements), <<>>))
    ELSE Returned([i \in 1..length |-> "O"])

\* lines 136-145
matching_gazetteer(gaz, word_forms) ==
    LET matchings == MatchingLoop(word_forms, gaz, 1, Returned({}))
    IN IF matchings.raised THEN AssertionError
       ELSE __format(matchings.value, Len(word_forms))

GazInit ==
    /\ sentence \in SeqsUpTo(CasedSymbols, MaxSentenceLen)
    /\ gazetteer \in SeqsUpTo(SeqsUpTo(CasedSymbols, MaxEntryLen), MaxGazetteer)
    /\ case_sensitive = FALSE
    /\ gaz_result = <<>>
    /\ gaz_pc = "call"
    /\ SearchIdle /\ LabelIdle /\ DocIdle /\ LaterIdle

\* matching_gazetteer(gazetteer, sentence), the sentence's words having the
\* word forms `sentence`
MatchingGazetteer ==
    /\ gaz_pc = "call"
    /\ gaz_result' = matching_gazetteer(gazetteer, sentence)
    /\ gaz_pc' = "matching_returned"
    /\ UNCHANGED <<sentence, gazetteer, case_sensitive>>
    /\ UNCHANGED <<searchVars, labelVars, docVars, laterVars>>

\* apply_gazetteer(sentence, gazetteer, case_sensitive=cs)
ApplyGazetteer ==
    /\ gaz_pc = "call"
    /\ \E cs \in BOOLEAN :
          /\ case_sensitive' = cs
          /\ gaz_result' = apply_gazetteer(sentence, gazetteer, cs)
    /\ gaz_pc' = "apply_returned"
    /\ UNCHANGED <<sentence, gazetteer>>
    /\ UNCHANGED <<searchVars, labelVars, docVars, laterVars>>

GazNext ==
    \/ MatchingGazetteer
    \/ ApplyGazetteer

SpecGaz == GazInit /\ [][GazNext]_vars

-----------------------------------------------------------------------------
(* Properties of the gazetteer matcher *)

\* no entry of the gazetteer is empty
EntriesNonEmpty == \A i \in 1..Len(gazetteer) : Len(gazetteer[i]) > 0

\* entry e occurs in text at the 0-based position s
OccursAt(e, text, s) ==
    /\ s + Len(e) <= Len(text)
    /\ SubSeq(text, s + 1, s + Len(e)) = e

\* token k (0-based) lies inside a match of some entry of the gazetteer
InsideSomeMatch(k) ==
    \E i \in 1..Len(gazetteer) :
        \E s \in 0..k :
            OccursAt(gazetteer[i], sentence, s) /\ k < s + Len(gazetteer[i])

Reverse(s) == [i \in 1..Len(s) |-> s[Len(s) + 1 - i]]

\* C8: whenever matching_gazetteer returns, the mask has exactly one entry
\* per token; it returns for every gazetteer without an empty entry, and for
\* the empty gazetteer every entry of the mask is 'O'.
C8_MaskHasOneEntryPerToken ==
    gaz_pc = "matching_returned" =>
        /\ ~gaz_result.raised => Len(gaz_result.value) = Len(sentence)
        /\ EntriesNonEmpty => ~gaz_result.raised
        /\ gazetteer = <<>> =>
              /\ ~gaz_result.raised
              /\ \A k \in 1..Len(gaz_result.value) : gaz_result.value[k] = "O"

\* C8 witness: a mask of three entries for a sentence of three tokens and a
\* gazetteer of two entries, one of them matching
C8_Witness ==
    /\ gaz_pc = "matching_returned"
    /\ sentence = <<"m", "M", "m">>
    /\ gazetteer = << <<"M">>, <<"M", "M">> >>
    /\ gaz_result = Returned(<<"O", "I", "O">>)

\* C9: for a gazetteer of non-empty entries, entry k of the mask is 'I'
\* exactly when token k lies inside a match of some entry, and 'O'
\* otherwise; the mask is the same for the entries in reverse order and for
\* the entries listed twice.
C9_MaskIsUnionOfMatches ==
    (gaz_pc = "matching_returned" /\ EntriesNonEmpty) =>
        /\ ~gaz_result.raised
        /\ \A k \in 0..(Len(sentence) - 1) :
              gaz_result.value[k + 1] =
                  IF InsideSomeMatch(k) THEN "I" ELSE "O"
        /\ matching_gazetteer(Reverse(gazetteer), sentence) = gaz_result
        /\ matching_gazetteer(gazetteer \o gazetteer, sentence) = gaz_result

\* C9 witness: the overlapping matches of two different entries cover the
\* whole sentence
C9_Witness ==
    /\ gaz_pc = "matching_returned"
    /\ sentence = <<"m", "M", "m">>
    /\ gazetteer = << <<"m", "M">>, <<"M", "m">> >>
    /\ gaz_result = Returned(<<"I", "I", "I">>)

\* the pairs apply_gazetteer returned
ReturnedPairs == {gaz_result.value[j] : j \in 1..Len(gaz_result.value)}

\* C10: with case_sensitive=False a pair (s, s+m-1) is reported exactly when
\* some entry of length m equals the sentence at s up to letter case; with
\* case_sensitive=True exactly when some entry of length m equals the
\* sentence at s unchanged.
C10_CaseHandling ==
    (gaz_pc = "apply_returned" /\ EntriesNonEmpty) =>
        /\ ~gaz_result.raised
        /\ \A s \in 0..Len(sentence) : \A m \in 1..(Len(sentence) - s) :
              (<<s, s + m - 1>> \in ReturnedPairs) <=>
                  \E i \in 1..Len(gazetteer) :
                      /\ Len(gazetteer[i]) = m
                      /\ IF case_sensitive
                         THEN OccursAt(gazetteer[i], sentence, s)
                         ELSE OccursAt(Lower(gazetteer[i]), Lower(sentence), s)

\* the generator run step by step yields what the exhausted generator gives
SearchStepsAgree ==
    pc = "done" => Returned(yielded) = search_subsequence(sequence, key, end)

-----------------------------------------------------------------------------
(* C11: an empty key is an error                                           *)

\* the gazetteers of at most two entries that hold the entry k
GazetteersWith(k) ==
    {<<k>>} \cup UNION {{<<k, other>>, <<other, k>>} :
                            other \in SeqsUpTo(Symbols, MaxEntryLen)}

\* C11: a search with an empty key fails with an error, for every sequence:
\* the generator yields nothing and never completes normally (it does not
\* finish as an empty result), and matching_gazetteer over a gazetteer that
\* holds an empty entry raises instead of returning a mask.
C11_EmptyKeyIsAnError ==
    Len(key) = 0 =>
        /\ yielded = <<>>
        /\ pc \in {"start", "AssertionError"}
        /\ search_subsequence(sequence, key, end) = AssertionError
        /\ \A gaz \in GazetteersWith(key) :
               matching_gazetteer(gaz, sequence) = AssertionError

\* the generator has raised on an empty key and a non-empty sequence
C11_Witness ==
    /\ pc = "AssertionError"
    /\ Len(key) = 0
    /\ Len(sequence) > 1
    /\ matching_gazetteer(<<<<sequence[1]>>, key>>, sequence).raised

-----------------------------------------------------------------------------
(* The overwrite renderer: TempEval3Writer.write, src/mantime/writers.py   *)
(* lines 96-118, and i2b2Writer.write_inline, lines 213-238 (the same      *)
(* loop).  A segment of the buffer is a sequence of pieces: a character of *)
(* the text, or an opening or closing tag; '' is the empty sequence.  The  *)
(* attributes inside a tag, which normalise() computes, are left out.      *)

\* longest document text, its leading blanks not counted
MaxTextLen == 3
\* most leading blanks of a document text
MaxTextOffset == 1
\* most predicted annotations of a document
MaxSpans == 2

\* the characters documents are written in; every position of a text
\* holds a different one
Letters == <<"a", "b", "c", "d", "e", "f", "g", "h">>
Letter(i) == Letters[((i - 1) % Len(Letters)) + 1]

\* a document.text of leading blanks followed by n characters
DocumentText(n, leading) ==
    [i \in 1..(leading + n) |-> IF i <= leading THEN " " ELSE Letter(i - leading)]

\* text[b:e] of a Python sequence
Slice(s, b, e) == SubSeq(s, b + 1, e)

\* a predicted annotation: a tag name, the offsets of the span (relative
\* to the stripped text, end exclusive) and the text it covers
Element(tag, start, stop, covered) ==
    [tag |-> tag, start |-> start, end |-> stop, text |-> covered]

\* the annotations over a document text of n characters: end > start,
\* inside the text, their text the text of their range
ElementsOf(n, leading) ==
    {Element(tag, r[1], r[2],
             Slice(DocumentText(n, leading), leading + r[1], leading + r[2])) :
        tag \in TagNames,
        r \in {q \in (0..n) \X (0..n) : q[1] < q[2]}}

OpenTag(tag) == "<" \o tag \o ">"
CloseTag(tag) == "</" \o tag \o ">"

\* lines 100-111: '<TIMEX3 ...>{text}</TIMEX3>' or '<EVENT ...>{text}</EVENT>'
Markup(element) ==
    <<OpenTag(element.tag)>> \o element.text \o <<CloseTag(element.tag)>>

\* line 112: the index the markup is written at
MarkupIndex(element, offset) == element.start + offset

\* a blanking loop that starts one index late
BlankStartLate(element, offset) == offset + element.start + 2

\* line 114: the first index of the blanking loop
BlankStart(element, offset) == offset + element.start + 1

\* a blanking loop that also blanks the index element.end
BlankStopInclusive(element, offset) == offset + element.end + 1

\* line 115: the index the blanking loop stops before
BlankStop(element, offset) == offset + element.end

\* ''.join(text)
RECURSIVE Join(_)
Join(buffer) ==
    IF buffer = <<>> THEN <<>> ELSE Head(buffer) \o Join(Tail(buffer))

RenderInit ==
    /\ \E n \in 0..MaxTextLen, leading \in 0..MaxTextOffset :
          /\ doc_text = DocumentText(n, leading)
          /\ text_offset = leading
          /\ predicted_annotations \in SeqsUpTo(ElementsOf(n, leading), MaxSpans)
    \* line 96: text = list(document.text)
    /\ segments = [i \in 1..Len(doc_text) |-> <<doc_text[i]>>]
    /\ element_index = 0
    /\ blank_i = 0
    /\ rendered_text = <<>>
    /\ render_pc = "for_element"
    /\ NotRenderIdle

\* lines 98-114: the next element's markup is written at its start index
WriteAnnotation ==
    /\ render_pc = "for_element"
    /\ element_index < Len(predicted_annotations)
    /\ LET element == predicted_annotations[element_index + 1]
           index == MarkupIndex(element, text_offset)
       IN IF index < Len(segments)
          THEN /\ segments' = [segments EXCEPT ![index + 1] = Markup(element)]
               /\ blank_i' = BlankStart(element, text_offset)
               /\ render_pc' = "blanking"
          ELSE /\ render_pc' = "IndexError"
               /\ UNCHANGED <<segments, blank_i>>
    /\ UNCHANGED <<doc_text, text_offset, predicted_annotations,
                   element_index, rendered_text>>
    /\ UNCHANGED notRenderVars

\* lines 114-116: text[i] = '' for the next i of the blanking loop
BlankCharacter ==
    /\ render_pc = "blanking"
    /\ blank_i < BlankStop(predicted_annotations[element_index + 1], text_offset)
    /\ IF blank_i < Len(segments)
       THEN /\ segments' = [segments EXCEPT ![blank_i + 1] = <<>>]
            /\ blank_i' = blank_i + 1
            /\ UNCHANGED render_pc
       ELSE /\ render_pc' = "IndexError"
            /\ UNCHANGED <<segments, blank_i>>
    /\ UNCHANGED <<doc_text, text_offset, predicted_annotations,
                   element_index, rendered_text>>
    /\ UNCHANGED notRenderVars

\* lines 114 and 98: the blanking loop is over, the for loop goes on
NextElement ==
    /\ render_pc = "blanking"
    /\ blank_i >= BlankStop(predicted_annotations[element_index + 1], text_offset)
    /\ element_index' = element_index + 1
    /\ render_pc' = "for_element"
    /\ UNCHANGED <<doc_text, text_offset, predicted_annotations, segments,
                   blank_i, rendered_text>>
    /\ UNCHANGED notRenderVars

\* lines 117-118: ''.join(text)
JoinText ==
    /\ render_pc = "for_element"
    /\ element_index = Len(predicted_annotations)
    /\ rendered_text' = Join(segments)
    /\ render_pc' = "joined"
    /\ UNCHANGED <<doc_text, text_offset, predicted_annotations, segments,
                   element_index, blank_i>>
    /\ UNCHANGED notRenderVars

RenderNext ==
    \/ WriteAnnotation
    \/ BlankCharacter
    \/ NextElement
    \/ JoinText

SpecRender == RenderInit /\ [][RenderNext]_vars

-----------------------------------------------------------------------------
(* The renderer's claims                                                   *)

\* two annotations of the list overlap: each starts before the other ends
Overlapping ==
    \E i, j \in 1..Len(predicted_annotations) :
        /\ i # j
        /\ predicted_annotations[i].start < predicted_annotations[j].end
        /\ predicted_annotations[j].start < predicted_annotations[i].end

\* every annotation's text is the document's text over its range
ContentIsOriginalText ==
    \A i \in 1..Len(predicted_annotations) :
        LET element == predicted_annotations[i]
        IN element.text = Slice(doc_text, text_offset + element.start,
                                text_offset + element.end)

\* the opening and closing tags the renderer inserts
TagPieces == {OpenTag(tag) : tag \in TagNames} \cup {CloseTag(tag) : tag \in TagNames}

\* a joined text with the inserted tags removed
WithoutTags(joined) == SelectSeq(joined, LAMBDA piece : piece \notin TagPieces)

\* the markup of annotation i is in the buffer, whole, at its start index
MarkupInPlace(i) ==
    LET element == predicted_annotations[i]
    IN segments[text_offset + element.start + 1] = Markup(element)

\* C12: the renderer, handed overlapping spans, fails with an error and
\* produces no output: it never returns a text for a list of annotations
\* two of which overlap, and no returned text has lost the markup of a
\* span to the blanking or the markup of another span.
C12_OverlappingSpansAreRefused ==
    render_pc = "joined" =>
        /\ ~Overlapping
        /\ \A i \in 1..Len(predicted_annotations) : MarkupInPlace(i)

\* C13: for non-overlapping spans whose text is the original text of their
\* range, at every point of the render pass, after each single segment
\* write, the join of the buffer with the inserted tags removed is the
\* original text.
C13_EverySegmentWriteKeepsText ==
    (~Overlapping /\ ContentIsOriginalText /\ render_pc # "idle") =>
        WithoutTags(Join(segments)) = doc_text

\* C13 as amended: the same, at the points of the pass where no span is
\* partly written: before the first span, after the blanking loop of each
\* span is over, and in the returned text.
C13_EveryWholeSpanKeepsText ==
    (~Overlapping /\ ContentIsOriginalText
        /\ render_pc \in {"for_element", "joined"}) =>
        /\ WithoutTags(Join(segments)) = doc_text
        /\ render_pc = "joined" => WithoutTags(rendered_text) = doc_text

\* two non-overlapping spans, the first of several characters, are both
\* written, behind leading blanks
C13_Witness ==
    /\ render_pc = "for_element"
    /\ element_index = 2
    /\ ~Overlapping
    /\ text_offset > 0
    /\ predicted_annotations[1].end > predicted_annotations[1].start + 1
    /\ segments # [i \in 1..Len(doc_text) |-> <<doc_text[i]>>]

\* the annotation, if there is one, that index i of the buffer belongs to
Covering(i) ==
    {k \in 1..Len(predicted_annotations) :
        /\ text_offset + predicted_annotations[k].start <= i
        /\ i < text_offset + predicted_annotations[k].end}

\* the buffer the set of annotations stands for, whatever the list order:
\* markup at each span's start, '' strictly inside, the text elsewhere
ExpectedSegments ==
    [i \in 1..Len(doc_text) |->
        IF Covering(i - 1) = {} THEN <<doc_text[i]>>
        ELSE LET element == predicted_annotations[CHOOSE k \in Covering(i - 1) : TRUE]
             IN IF text_offset + element.start = i - 1
                THEN Markup(element)
                ELSE <<>>]

\* C14: the render of pairwise non-overlapping spans with end > start does
\* not depend on their order: for every order of the list the final buffer
\* holds each span's markup at its start, '' strictly between start and
\* end, and the text unchanged elsewhere, and the returned text is its join.
C14_OrderIndependent ==
    (render_pc = "joined" /\ ~Overlapping) =>
        /\ segments = ExpectedSegments
        /\ rendered_text = Join(ExpectedSegments)

\* two adjacent spans were rendered, the later one of the text first
C14_Witness ==
    /\ render_pc = "joined"
    /\ ~Overlapping
    /\ Len(predicted_annotations) = 2
    /\ predicted_annotations[2].end = predicted_annotations[1].start
    /\ rendered_text # doc_text

-----------------------------------------------------------------------------
(* ManTIME.train, ManTIME.label and the test-mode loop of main(),          *)
(* src/mantime/mantime.py lines 57-112 and 144-168.  A file of the batch   *)
(* is its position in the loop order; what processing it does is one of    *)
(* "ok", "ParseError" (cElementTree.ParseError) and "Error" (any other     *)
(* exception, such as the AssertionError of search_subsequence).           *)

\* most files of a batch
MaxFiles == 3
\* most calls of train on one instance, most test runs of main()
MaxCalls == 2
\* most files of the folder of a later call of train
MaxLaterFiles == 1

Outcomes == {"ok", "ParseError", "Error"}

\* the contents an output file can have: written by this run, empty,
\* or left by an earlier run
Contents == {"annotated", "", "earlier"}

\* a test that finds no file under ./output
NotInOutputWhateverExists(file) == TRUE

\* lines 159-160: writein not in glob.glob('./output/*.*')
NotInOutput(file) == file \notin DOMAIN output_files

\* a document of self.documents: the file it was parsed from, named by
\* the call of train that read it and its position in that call's folder
Doc(call, file) == <<call, file>>

BatchInit ==
    /\ mode \in {"train", "test"}
    /\ calls = 0
    /\ input_files \in SeqsUpTo(Outcomes, MaxFiles)
    /\ file_index = 0
    /\ self_documents = <<>>
    /\ trained_documents = <<>>
    /\ logged = <<>>
    /\ IF mode = "test"
       THEN \E existing \in SUBSET (1..Len(input_files)) :
                output_files \in [existing -> {"", "earlier"}]
       ELSE output_files = <<>>
    /\ batch_pc = "loop"
    /\ NotBatchIdle

\* lines 66-74: one iteration of the loop of train
TrainFile ==
    /\ mode = "train"
    /\ batch_pc = "loop"
    /\ file_index < Len(input_files)
    /\ LET input_file == file_index + 1
       IN IF input_files[input_file] = "ok"
          THEN /\ self_documents' =
                     Append(self_documents, Doc(calls, input_file))
               /\ file_index' = file_index + 1
               /\ UNCHANGED <<logged, batch_pc>>
          ELSE IF input_files[input_file] = "ParseError"
          THEN /\ logged' = Append(logged, input_file)
               /\ file_index' = file_index + 1
               /\ UNCHANGED <<self_documents, batch_pc>>
          ELSE /\ batch_pc' = "raised"
               /\ UNCHANGED <<self_documents, logged, file_index>>
    /\ UNCHANGED <<mode, calls, input_files, trained_documents, output_files>>
    /\ UNCHANGED notBatchVars

\* lines 76-88: the loop is over, the classifiers are trained
TrainModels ==
    /\ mode = "train"
    /\ batch_pc = "loop"
    /\ file_index = Len(input_files)
    /\ trained_documents' = self_documents
    /\ batch_pc' = "trained"
    /\ UNCHANGED <<mode, calls, input_files, file_index, self_documents, logged,
                   output_files>>
    /\ UNCHANGED notBatchVars

\* line 153: assert documents, 'Input folder is empty.'
AssertDocuments ==
    /\ mode = "test"
    /\ batch_pc = "loop"
    /\ Len(input_files) = 0
    /\ batch_pc' = "raised"
    /\ UNCHANGED <<mode, calls, input_files, file_index, self_documents,
                   trained_documents, logged, output_files>>
    /\ UNCHANGED notBatchVars

\* lines 154-164 and 90-112: one iteration of the test loop
LabelFile ==
    /\ mode = "test"
    /\ batch_pc = "loop"
    /\ file_index < Len(input_files)
    /\ LET doc == file_index + 1
           \* line 162: codecs.open(file_path, 'w') creates or empties the file
           opened == [f \in DOMAIN output_files \cup {doc} |->
                         IF f = doc THEN "" ELSE output_files[f]]
       IN IF ~NotInOutput(doc)
          THEN /\ file_index' = file_index + 1
               /\ UNCHANGED <<logged, output_files, batch_pc>>
          ELSE IF input_files[doc] = "ok"
          THEN /\ output_files' = [opened EXCEPT ![doc] = "annotated"]
               /\ file_index' = file_index + 1
               /\ UNCHANGED <<logged, batch_pc>>
          ELSE IF input_files[doc] = "ParseError"
          \* lines 108-112: label logs the file and returns ['']
          THEN /\ output_files' = opened
               /\ logged' = Append(logged, doc)
               /\ file_index' = file_index + 1
               /\ UNCHANGED batch_pc
          \* the exception leaves label and main; the file stays as opened
          ELSE /\ output_files' = opened
               /\ batch_pc' = "raised"
               /\ UNCHANGED <<logged, file_index>>
    /\ UNCHANGED <<mode, calls, input_files, self_documents, trained_documents>>
    /\ UNCHANGED notBatchVars

\* line 154: the test loop is over
TestDone ==
    /\ mode = "test"
    /\ batch_pc = "loop"
    /\ Len(input_files) > 0
    /\ file_index = Len(input_files)
    /\ batch_pc' = "finished"
    /\ UNCHANGED <<mode, calls, input_files, file_index, self_documents,
                   trained_documents, logged, output_files>>
    /\ UNCHANGED notBatchVars

\* train is called again on the same instance, with another folder
\* (lines 57-65)
TrainAgain ==
    /\ mode = "train"
    /\ batch_pc = "trained"
    /\ calls + 1 < MaxCalls
    /\ calls' = calls + 1
    /\ input_files' \in SeqsUpTo(Outcomes, MaxLaterFiles)
    /\ file_index' = 0
    /\ batch_pc' = "loop"
    /\ UNCHANGED <<mode, self_documents, trained_documents, logged,
                   output_files>>
    /\ UNCHANGED notBatchVars

\* main() is run again in test mode on the same input folder, ./output as
\* the earlier run left it (lines 147-154)
RunAgain ==
    /\ mode = "test"
    /\ batch_pc \in {"finished", "raised"}
    /\ Len(input_files) > 0
    /\ calls + 1 < MaxCalls
    /\ calls' = calls + 1
    /\ file_index' = 0
    /\ batch_pc' = "loop"
    /\ UNCHANGED <<mode, input_files, self_documents, trained_documents,
                   logged, output_files>>
    /\ UNCHANGED notBatchVars

BatchNext ==
    \/ TrainFile
    \/ TrainModels
    \/ TrainAgain
    \/ RunAgain
    \/ AssertDocuments
    \/ LabelFile
    \/ TestDone

SpecBatch == BatchInit /\ [][BatchNext]_vars

\* the files of the batch after the first one that fails
AfterAFailure ==
    {f \in 1..Len(input_files) :
        \E g \in 1..(f - 1) : input_files[g] # "ok"}

\* file f has been taken by the loop
Processed(f) == f <= file_index

\* C15: a failure raised while processing one document, a malformed
\* document or the empty-pattern error of the search engine, is confined to
\* that document: train and the test loop never abort on it, and every
\* document after a failing one is still processed before the batch ends.
C15_FailureIsConfined ==
    /\ (batch_pc = "raised" => Len(input_files) = 0)
    /\ (batch_pc \in {"trained", "finished", "raised"} =>
            \A f \in AfterAFailure : Processed(f))

-----------------------------------------------------------------------------
(* Sentence.__init__, src/mantime/model.py lines 77-96, and the sentence   *)
(* loop of a reader's parse, src/mantime/readers.py lines 169-193.  A list *)
(* object is named by a reference: "default" is the list created once,     *)
(* when `def __init__(..., words=[])` is evaluated.  The readers never     *)
(* hand a list of their own to Sentence.  The readers build a Word with    *)
(* the keyword id_token, which Word.__init__ (model.py lines 101-102) does *)
(* not take, and call store_gold_annotations without the                   *)
(* annotation_format it requires (model.py line 59), so that every call of *)
(* parse ends with a TypeError; the reader can be asked for the next       *)
(* document after it.                                                      *)

\* most Sentence objects built
MaxSentences == 5
\* most words asked for through one Sentence object
MaxWords == 2
\* most documents parse is called for
MaxDocuments == 3

\* lines 79-80 and 96: self.words = words, the value of the parameter
SentenceWords(given) == given

\* the list a reference stands for
ListOf(reference) ==
    IF reference = "default" THEN default_words ELSE <<>>

\* a Word.__init__ that takes id_token as well
WordParametersWithIdToken ==
    {"word_form", "char_offset_begin", "char_offset_end", "lemma",
     "named_entity_tag", "part_of_speech", "id_token"}

\* model.py lines 101-102: the parameters of Word.__init__ after self, all
\* of them required
WordParameters ==
    {"word_form", "char_offset_begin", "char_offset_end", "lemma",
     "named_entity_tag", "part_of_speech"}

\* readers.py lines 185-191: the keywords of the call of Word
ReaderKeywords ==
    {"word_form", "char_offset_begin", "char_offset_end", "lemma",
     "named_entity_tag", "part_of_speech", "id_token"}

\* __init__() got an unexpected keyword argument
TypeError == [raised |-> TRUE, value |-> "TypeError"]

\* a call of Word with the given keywords, which would build the given
\* object: a keyword that is no parameter and a parameter without a value
\* each raise TypeError
CallWord(keywords, object) ==
    IF keywords = WordParameters THEN Returned(object) ELSE TypeError

\* element.text and element.tail of an element without text, without tail
\* (ElementTree never reports the empty string)
None == <<>>

\* model.py line 59: the parameters of store_gold_annotations, self aside
StoreParameters == {"annotation_format"}

\* readers.py line 195: the arguments the reader calls it with
StoreArguments == {}

\* the call of Document.store_gold_annotations with the given arguments
CallStore(arguments) ==
    IF arguments = StoreParameters THEN Returned(None) ELSE TypeError

\* readers.py lines 185-191: the Word built for position num_word of the
\* sentence being parsed
ParsedWord(num_word) ==
    CallWord(ReaderKeywords,
             [document |-> documents_parsed + 1, sentence |-> Len(sentences),
              id_token |-> num_word])

ParseInit ==
    /\ default_words = <<>>
    /\ sentences = <<>>
    /\ documents_parsed = 0
    /\ parse_pc = "between"
    /\ NotParseIdle

\* parse(file_path) is called and reaches its sentence loop
BeginParse ==
    /\ parse_pc \in {"between", "TypeError"}
    /\ documents_parsed < MaxDocuments
    /\ parse_pc' = "in_document"
    /\ UNCHANGED <<default_words, sentences, documents_parsed>>
    /\ UNCHANGED notParseVars

\* readers.py lines 169-180: sentence = Sentence(dependencies=...,
\* indexed_dependencies=..., parsetree=..., text=...), no words argument
NewSentence ==
    /\ parse_pc = "in_document"
    /\ Len(sentences) < MaxSentences
    /\ sentences' =
           Append(sentences,
                  [document |-> documents_parsed + 1,
                   words |-> SentenceWords("default"),
                   asked |-> 0,
                   appended |-> <<>>])
    /\ parse_pc' = "in_sentence"
    /\ UNCHANGED <<default_words, documents_parsed>>
    /\ UNCHANGED notParseVars

\* readers.py lines 181-192: the sentence has another word;
\* word = Word(...), then sentence.words.append(word)
AppendWord ==
    /\ parse_pc = "in_sentence"
    /\ LET current == sentences[Len(sentences)]
           word == ParsedWord(current.asked)
       IN /\ current.asked < MaxWords
          /\ current.words = "default"
          /\ IF word.raised
             THEN \* the exception leaves parse
                  /\ parse_pc' = word.value
                  /\ documents_parsed' = documents_parsed + 1
                  /\ sentences' =
                         [sentences EXCEPT ![Len(sentences)].asked = @ + 1]
                  /\ UNCHANGED default_words
             ELSE /\ default_words' = Append(default_words, word.value)
                  /\ sentences' =
                         [sentences EXCEPT
                             ![Len(sentences)].asked = @ + 1,
                             ![Len(sentences)].appended =
                                 Append(@, word.value)]
                  /\ UNCHANGED <<parse_pc, documents_parsed>>
    /\ UNCHANGED notParseVars

\* readers.py line 193: document.sentences.append(sentence)
EndSentence ==
    /\ parse_pc = "in_sentence"
    /\ parse_pc' = "in_document"
    /\ UNCHANGED <<default_words, sentences, documents_parsed>>
    /\ UNCHANGED notParseVars

\* readers.py lines 169, 195-197: the sentence loop of the document is
\* over; document.store_gold_annotations() and return document
EndDocument ==
    /\ parse_pc = "in_document"
    /\ documents_parsed' = documents_parsed + 1
    /\ LET stored == CallStore(StoreArguments)
       IN parse_pc' = IF stored.raised THEN stored.value ELSE "between"
    /\ UNCHANGED <<default_words, sentences>>
    /\ UNCHANGED notParseVars

ParseNext ==
    \/ BeginParse
    \/ NewSentence
    \/ AppendWord
    \/ EndSentence
    \/ EndDocument

SpecParse == ParseInit /\ [][ParseNext]_vars

-----------------------------------------------------------------------------
(* The decoder of section 4.4 run on labels of any provenance              *)

\* the labels a classifier can hand to the decoder
DecoderLabels ==
    {"O"} \cup {s \o "-" \o t : s \in {"B", "I"}, t \in TagNames}

\* the document "by next Monday ." of section 8, scenario 4
RunScenarioTokens == << <<0, 2>>, <<3, 7>>, <<8, 14>>, <<15, 16>> >>
RunScenarioLabels == <<"O", "B-TIMEX3", "I-TIMEX3", "O">>

\* a document's tokens and one label per token reach the decoder
DecodeInit ==
    /\ \/ \E ts \in TokenLists : words = [i \in 1..Len(ts) |-> Word(ts[i])]
       \/ words = [i \in 1..Len(RunScenarioTokens) |-> Word(RunScenarioTokens[i])]
    /\ dec_labels \in [1..Len(words) -> DecoderLabels]
    /\ gold_annotations = <<>>
    /\ doc_format = <<>>
    /\ doc_annotation_format = <<>>
    /\ doc_pc = "decoding"
    /\ dec_index = 0
    /\ dec_state = <<"idle">>
    /\ dec_counters = InitialCounters
    /\ rendered_spans = <<>>
    /\ SearchIdle /\ LabelIdle /\ GazIdle /\ LaterIdle

DecodeNext ==
    \/ DecodeToken
    \/ DecodeEnd

SpecDecode == DecodeInit /\ [][DecodeNext]_vars

\* the tag of every token's label, "O" for the label O
TokenTags ==
    [k \in 1..Len(dec_labels) |->
        IF dec_labels[k] = "O" THEN "O" ELSE LabelTag(dec_labels[k])]

\* tokens i..j carry non-O labels of one tag
SameTagRun(tags, i, j) ==
    /\ tags[i] # "O"
    /\ \A k \in i..j : tags[k] = tags[i]

\* the maximal runs (i, j): no token before i or after j extends the run
MaximalRuns(tags) ==
    {r \in (1..Len(tags)) \X (1..Len(tags)) :
        /\ r[1] <= r[2]
        /\ SameTagRun(tags, r[1], r[2])
        /\ (r[1] = 1 \/ tags[r[1] - 1] # tags[r[1]])
        /\ (r[2] = Len(tags) \/ tags[r[2] + 1] # tags[r[1]])}

\* C17: the decoder emits exactly one span per maximal run of consecutive
\* tokens whose non-O labels carry the same tag, from the start of the run's
\* first token to the end of its last; a run is closed by an O label, a
\* label of another tag or the end of the document (a run counts as closed
\* once a later token was read or the document is over), and the spans come
\* in the order of the runs.  Nothing else is emitted.
C17_OneSpanPerMaximalRun ==
    doc_pc \in {"decoding", "decoded"} =>
        LET tags == TokenTags
            closed == {r \in MaximalRuns(tags) :
                          r[2] < dec_index \/ doc_pc = "decoded"}
        IN /\ Len(rendered_spans) = Cardinality(closed)
           /\ \A r \in closed :
                  LET span == rendered_spans[Cardinality({q \in closed : q[1] <= r[1]})]
                  IN /\ span.tag = tags[r[1]]
                     /\ span.start = words[r[1]].character_offset_begin
                     /\ span.end = words[r[2]].character_offset_end

\* the labels O, B-TIMEX3, I-TIMEX3, O over (0,2), (3,7), (8,14), (15,16)
\* were decoded into the single span TIMEX3 (3, 14)
C17_Witness ==
    /\ doc_pc = "decoded"
    /\ words = [i \in 1..Len(RunScenarioTokens) |-> Word(RunScenarioTokens[i])]
    /\ dec_labels = RunScenarioLabels
    /\ rendered_spans = <<[tag |-> "TIMEX3", id |-> 1, start |-> 3, end |-> 14]>>

-----------------------------------------------------------------------------
(* pipeline(file_set), src/pipeline.py lines 37-60: the span ids of one    *)
(* worker's files.  Tagger.tag (components/tagger.py) is not under src/:   *)
(* it is taken to number the spans it finds in a sentence from the         *)
(* start_id it is given and to return the next free id.                    *)

\* most files of a file_set
MaxFileSet == 2
\* most sentences of a file
MaxFileSentences == 2
\* most spans the tagger finds in a sentence
MaxSentenceSpans == 2

\* the ids tagger.tag gives the found spans of a sentence
TaggedIds(first_id, found) == [i \in 1..found |-> first_id + i - 1]

\* tagged['start_id']: the next free id
TaggedStartId(first_id, found) == first_id + found

\* a loop that carries the counter over to the next file
StartIdCarriedOver(current) == current

\* line 58: start_id = 1 after the sentences of a file
StartIdAfterFile(current) == 1

PipelineInit ==
    /\ file_set_size \in 0..MaxFileSet
    /\ files_done = 0
    /\ sentences_done = 0
    \* line 41
    /\ start_id = 1
    /\ file_ids = <<>>
    /\ earlier_spans = 0
    /\ pipe_pc = "for_file"
    /\ NotPipeIdle

\* lines 42-49: the for loop takes the next file
NextFile ==
    /\ pipe_pc = "for_file"
    /\ files_done < file_set_size
    /\ earlier_spans' = earlier_spans + Len(file_ids)
    /\ file_ids' = <<>>
    /\ sentences_done' = 0
    /\ pipe_pc' = "for_sentence"
    /\ UNCHANGED <<file_set_size, files_done, start_id>>
    /\ UNCHANGED notPipeVars

\* lines 50-57: one sentence is tagged; start_id = tagged['start_id']
TagSentence ==
    /\ pipe_pc = "for_sentence"
    /\ sentences_done < MaxFileSentences
    /\ \E found \in 0..MaxSentenceSpans :
          /\ file_ids' = file_ids \o TaggedIds(start_id, found)
          /\ start_id' = TaggedStartId(start_id, found)
    /\ sentences_done' = sentences_done + 1
    /\ UNCHANGED <<file_set_size, files_done, earlier_spans, pipe_pc>>
    /\ UNCHANGED notPipeVars

\* lines 58-60: the sentences of the file are over
EndFile ==
    /\ pipe_pc = "for_sentence"
    /\ start_id' = StartIdAfterFile(start_id)
    /\ files_done' = files_done + 1
    /\ pipe_pc' = "for_file"
    /\ UNCHANGED <<file_set_size, sentences_done, file_ids, earlier_spans>>
    /\ UNCHANGED notPipeVars

\* line 42: the file loop is over
PipelineReturn ==
    /\ pipe_pc = "for_file"
    /\ files_done = file_set_size
    /\ pipe_pc' = "returned"
    /\ UNCHANGED <<file_set_size, files_done, sentences_done, start_id,
                   file_ids, earlier_spans>>
    /\ UNCHANGED notPipeVars

PipelineNext ==
    \/ NextFile
    \/ TagSentence
    \/ EndFile
    \/ PipelineReturn

SpecPipeline == PipelineInit /\ [][PipelineNext]_vars

\* C18: span ids are sequential per document: the ids given to the spans of
\* a document start at 1 and strictly increase in emission order across its
\* sentences, the counter returned for one sentence being the start id of
\* the next, and every document starts again at 1 whatever the same worker
\* processed before it.
C18_IdsSequentialPerDocument ==
    pipe_pc # "idle" =>
        /\ (file_ids # <<>> => file_ids[1] = 1)
        /\ \A i \in 1..(Len(file_ids) - 1) : file_ids[i] < file_ids[i + 1]
        /\ (pipe_pc = "for_sentence" =>
                /\ start_id >= 1
                /\ \A i \in 1..Len(file_ids) : file_ids[i] < start_id
                /\ (file_ids = <<>> => start_id = 1))
        /\ (pipe_pc = "for_file" => start_id = 1)

\* a second document, after a first one with spans, has spans from two
\* sentences
C18_Witness ==
    /\ pipe_pc = "for_file"
    /\ files_done = 2
    /\ earlier_spans > 0
    /\ sentences_done = 2
    /\ Len(file_ids) > MaxSentenceSpans

-----------------------------------------------------------------------------
(* The i2b2 stand-off format: i2b2Writer.write, src/mantime/writers.py     *)
(* lines 165-182, and i2b2FileReader._get_annotations,                     *)
(* src/mantime/readers.py lines 446-468, called by parse (line 411) with   *)
(* start_offset = -left_chars.  The attributes are decimal strings.  The   *)
(* writer asks the document for get_text, which Document of model.py does  *)
(* not have; the reader also reads the files of the corpus.                *)

\* the offsets the spans of the round trip begin from, so that the
\* attributes have one, two and three digits
OffsetBases == {0, 8, 98}

DigitCharacters == <<"0", "1", "2", "3", "4", "5", "6", "7", "8", "9">>

\* '{cstart}'.format(cstart=n) for n >= 0: the decimal digits of n
RECURSIVE FormatInteger(_)
FormatInteger(n) ==
    IF n < 10 THEN <<DigitCharacters[n + 1]>>
    ELSE FormatInteger(n \div 10) \o <<DigitCharacters[(n % 10) + 1]>>

\* the value of one decimal digit
DigitValue(character) ==
    CHOOSE d \in 0..9 : DigitCharacters[d + 1] = character

\* int(s) for a string of decimal digits
RECURSIVE ParseInteger(_)
ParseInteger(digits) ==
    IF Len(digits) = 1 THEN DigitValue(digits[1])
    ELSE 10 * ParseInteger(SubSeq(digits, 1, Len(digits) - 1))
             + DigitValue(digits[Len(digits)])

\* model.py lines 45-71: the methods of Document
DocumentMethods == {"__init__", "store_gold_annotations", "__str__",
                    "__repr__"}

AttributeError == [raised |-> TRUE, value |-> "AttributeError"]

\* writers.py line 166: document.get_text(element.start, element.end)
CallGetText ==
    IF "get_text" \in DocumentMethods THEN Returned("text")
                                      ELSE AttributeError

\* writers.py lines 167-181: cstart, cend = element.start + 1,
\* element.end + 1, and the tag with its start and end attributes
FormatTag(element) ==
    LET cstart == element.start + 1
        cend == element.end + 1
    IN [tag |-> element.tag,
        attrib |-> [start |-> FormatInteger(cstart),
                    end |-> FormatInteger(cend)]]

\* writers.py lines 165-182: the tag written for one element, or the
\* exception of line 166
WrittenTag(element) ==
    IF CallGetText.raised THEN CallGetText
                          ELSE Returned(FormatTag(element))

\* the EVENT and TIMEX3 elements of a file of the corpus
FileTags ==
    {[tag |-> tag,
      attrib |-> [start |-> FormatInteger(base + r[1]),
                  end |-> FormatInteger(base + r[2])]] :
        tag \in TagNames, r \in Ranges, base \in OffsetBases}

\* readers.py lines 463-465: the annotation read from one element
ReadAnnotation(element, start_offset) ==
    <<element.tag, element.attrib,
      <<ParseInteger(element.attrib.start) + start_offset,
        ParseInteger(element.attrib.end) + start_offset>> >>

\* a document with a predicted annotation for the writer, or a file of the
\* corpus for the reader
StandoffInit ==
    /\ \/ /\ \E tag \in TagNames, r \in Ranges, base \in OffsetBases :
                written_element = [tag |-> tag, start |-> base + r[1],
                                   end |-> base + r[2]]
          /\ xml_tag = <<>>
          /\ standoff_pc = "element"
       \/ /\ written_element = <<>>
          /\ xml_tag \in FileTags
          /\ standoff_pc = "file"
    /\ left_chars \in 0..MaxTextOffset
    /\ read_annotation = <<>>
    /\ NotStandoffIdle

\* i2b2Writer.write writes the element's tag, or raises
WriteTag ==
    /\ standoff_pc = "element"
    /\ LET written == WrittenTag(written_element)
       IN IF written.raised
          THEN /\ standoff_pc' = written.value
               /\ UNCHANGED xml_tag
          ELSE /\ xml_tag' = written.value
               /\ standoff_pc' = "written"
    /\ UNCHANGED <<written_element, left_chars, read_annotation>>
    /\ UNCHANGED notStandoffVars

\* i2b2FileReader.parse reads a file:
\* self._get_annotations(xml, -left_chars)
ReadTag ==
    /\ standoff_pc \in {"written", "file"}
    /\ read_annotation' = ReadAnnotation(xml_tag, -left_chars)
    /\ standoff_pc' = IF standoff_pc = "written" THEN "read" ELSE "read_file"
    /\ UNCHANGED <<written_element, left_chars, xml_tag>>
    /\ UNCHANGED notStandoffVars

StandoffNext ==
    \/ WriteTag
    \/ ReadTag

SpecStandoff == StandoffInit /\ [][StandoffNext]_vars

\* C19: offset round trip through the i2b2 stand-off format: for every span
\* (start, end) and every text-offset correction, i2b2Writer.write writes
\* start and end attributes, and these, read back by
\* i2b2FileReader._get_annotations with the same correction, give (start, end).
C19_StandoffRoundTrip ==
    /\ standoff_pc # "AttributeError"
    /\ standoff_pc = "read" =>
          read_annotation[3] = <<written_element.start, written_element.end>>

-----------------------------------------------------------------------------
(* main() of pipeline.py, src/pipeline.py lines 86-94: the input files are *)
(* cut into chunks, and pool.map hands every chunk to a worker once.  The  *)
(* workers are processes that run at the same time: each takes the next    *)
(* chunk of the queue when it is free and runs pipeline(chunk) over the    *)
(* files of the chunk, in order; the files of different chunks are         *)
(* processed in any order.  A file is named by its position in the         *)
(* listing.                                                                *)

\* most input files
MaxInputFiles == 5
\* most processors multiprocessing.cpu_count() reports
MaxCpuCount == 2

\* the smaller of two integers
Min(a, b) == IF a <= b THEN a ELSE b

\* lines 88-89: int(len(files)/processes_num) under true division, and at
\* least 1
ChunkDim(length, processes) ==
    LET quotient == length \div processes
    IN IF quotient < 1 THEN 1 ELSE quotient

\* a chunk that runs one file into the next chunk
ChunkAtOverlapping(list, i, dim) ==
    SubSeq(list, i + 1, Min(i + dim + 1, Len(list)))

\* line 90: files[i:i+chunk_dim], the slice ending with the list
ChunkAt(list, i, dim) ==
    SubSeq(list, i + 1, Min(i + dim, Len(list)))

ChunkInit ==
    /\ \E n \in 0..MaxInputFiles : files = [f \in 1..n |-> f]
    \* line 86
    /\ \E cpu_count \in 1..MaxCpuCount : processes_num = cpu_count * 2
    /\ chunk_dim = 0
    /\ chunk_i = 0
    /\ file_chunks = <<>>
    /\ tasks_run = 0
    /\ last_worker = 0
    /\ chunk_progress = <<>>
    /\ chunk_worker = <<>>
    /\ processed = [f \in 1..Len(files) |-> 0]
    /\ chunk_pc = "main"
    /\ NotChunkIdle

\* lines 88-89
ComputeChunkDim ==
    /\ chunk_pc = "main"
    /\ chunk_dim' = ChunkDim(Len(files), processes_num)
    /\ chunk_i' = 0
    /\ chunk_pc' = "chunking"
    /\ UNCHANGED <<files, processes_num, file_chunks, tasks_run, last_worker,
                   chunk_progress, chunk_worker, processed>>
    /\ UNCHANGED notChunkVars

\* line 90: one more chunk of the list comprehension
BuildChunk ==
    /\ chunk_pc = "chunking"
    /\ chunk_i < Len(files)
    /\ file_chunks' = Append(file_chunks, ChunkAt(files, chunk_i, chunk_dim))
    /\ chunk_i' = chunk_i + chunk_dim
    /\ UNCHANGED <<files, processes_num, chunk_dim, tasks_run, last_worker,
                   chunk_progress, chunk_worker, processed, chunk_pc>>
    /\ UNCHANGED notChunkVars

\* lines 90-93: range(0, len(files), chunk_dim) is exhausted; the pool starts
StartPool ==
    /\ chunk_pc = "chunking"
    /\ chunk_i >= Len(files)
    /\ chunk_progress' = [c \in 1..Len(file_chunks) |-> 0]
    /\ chunk_worker' = [c \in 1..Len(file_chunks) |-> 0]
    /\ chunk_pc' = "pool_map"
    /\ UNCHANGED <<files, processes_num, chunk_dim, chunk_i, file_chunks,
                   tasks_run, last_worker, processed>>
    /\ UNCHANGED notChunkVars

\* the workers that can process the next file of chunk c: the worker that
\* runs the chunk, or, for a chunk no file of which has been processed, any
\* worker that is not part way through a chunk, provided there are workers
\* to hold the chunks that are before c in the queue and not yet begun
WorkersFor(c) ==
    LET \* the chunks a worker is part way through
        in_progress ==
            {d \in 1..Len(file_chunks) :
                /\ 0 < chunk_progress[d]
                /\ chunk_progress[d] < Len(file_chunks[d])}
    IN IF chunk_progress[c] > 0
       THEN {chunk_worker[c]}
       ELSE IF Cardinality(in_progress)
                 + Cardinality({d \in 1..(c - 1) : chunk_progress[d] = 0})
                 + 1 <= processes_num
            THEN (1..processes_num) \ {chunk_worker[d] : d \in in_progress}
            ELSE {}

\* line 94 and lines 42-60: a worker of the pool processes the next file
\* of the chunk it runs
RunChunk ==
    /\ chunk_pc = "pool_map"
    /\ \E c \in 1..Len(file_chunks) :
          /\ chunk_progress[c] < Len(file_chunks[c])
          /\ \E worker \in WorkersFor(c) :
                LET file == file_chunks[c][chunk_progress[c] + 1]
                    finished == chunk_progress[c] + 1 = Len(file_chunks[c])
                IN /\ last_worker' = worker
                   /\ processed' = [processed EXCEPT ![file] = @ + 1]
                   /\ chunk_progress' = [chunk_progress EXCEPT ![c] = @ + 1]
                   /\ chunk_worker' =
                          [chunk_worker EXCEPT
                              ![c] = IF finished THEN 0 ELSE worker]
                   /\ tasks_run' = IF finished THEN tasks_run + 1
                                                ELSE tasks_run
    /\ UNCHANGED <<files, processes_num, chunk_dim, chunk_i, file_chunks,
                   chunk_pc>>
    /\ UNCHANGED notChunkVars

\* line 94: every chunk has been run, pool.map returns
PoolMapReturns ==
    /\ chunk_pc = "pool_map"
    /\ tasks_run = Len(file_chunks)
    /\ chunk_pc' = "mapped"
    /\ UNCHANGED <<files, processes_num, chunk_dim, chunk_i, file_chunks,
                   tasks_run, last_worker, chunk_progress, chunk_worker,
                   processed>>
    /\ UNCHANGED notChunkVars

ChunkNext ==
    \/ ComputeChunkDim
    \/ BuildChunk
    \/ StartPool
    \/ RunChunk
    \/ PoolMapReturns

SpecChunks == ChunkInit /\ [][ChunkNext]_vars

\* the files of a list of chunks, in order
RECURSIVE Concatenation(_)
Concatenation(chunks) ==
    IF chunks = <<>> THEN <<>>
    ELSE Head(chunks) \o Concatenation(Tail(chunks))

\* the set of files of a chunk
FilesOf(chunk) == {chunk[k] : k \in 1..Len(chunk)}

\* C20: main() of pipeline.py splits the input files into chunks such that
\* every file belongs to exactly one chunk: the chunks are non-empty,
\* pairwise disjoint, and their concatenation in order is the file list, for
\* every number of files and every worker count; hence no file is processed
\* by two workers, whatever the order the workers run in, and once pool.map
\* has returned every file was processed exactly once.
C20_ChunksPartitionFiles ==
    /\ \A c \in 1..Len(file_chunks) : file_chunks[c] # <<>>
    /\ \A c, d \in 1..Len(file_chunks) :
           c # d => FilesOf(file_chunks[c]) \cap FilesOf(file_chunks[d]) = {}
    /\ (chunk_pc = "chunking" =>
            Concatenation(file_chunks) = SubSeq(files, 1, Min(chunk_i, Len(files))))
    /\ (chunk_pc \in {"pool_map", "mapped"} =>
            Concatenation(file_chunks) = files)
    /\ \A f \in 1..Len(files) : processed[f] <= 1
    /\ (chunk_pc = "mapped" => \A f \in 1..Len(files) : processed[f] = 1)

\* the pool has run chunks of several files and a shorter last chunk
C20_Witness ==
    /\ chunk_pc = "mapped"
    /\ chunk_dim > 1
    /\ Len(file_chunks) > processes_num
    /\ Len(file_chunks[Len(file_chunks)]) < chunk_dim

-----------------------------------------------------------------------------
(* C21: the scan is a single pass                                          *)

\* the generator is in its search loop, or has left it
Scanning == pc \in {"search_for", "search_while", "search_shifted", "done"}

\* the generator has just yielded: the key is matched and the next element
\* is not taken yet
JustYielded ==
    /\ pc \in {"search_for", "done"}
    /\ Len(key) > 0
    /\ matched_lenght = Len(key)

\* the start position of a yielded value
YieldedStart(value) == IF end THEN value[1] ELSE value

\* C21, the bookkeeping as stated: throughout the scan start_position +
\* matched_length equals the number of elements consumed.
C21_SumIsConsumedThroughout ==
    Scanning => start_position + matched_lenght = consumed

\* C21 as amended: the scan is a single pass without backtracking.  Between
\* elements (before the next element is taken, at every yield, at the end)
\* start_position + matched_length equals the number of elements consumed.
\* Always -1 <= matched_length <= len(K); a yield of a match starting at i
\* comes when exactly i + len(K) elements are consumed; no yielded match
\* reaches beyond the consumed elements.
C21_SinglePass ==
    Scanning =>
        /\ consumed <= Len(sequence)
        /\ -1 <= matched_lenght /\ matched_lenght <= Len(key)
        /\ (pc \in {"search_for", "done"} =>
                start_position + matched_lenght = consumed)
        /\ (JustYielded =>
                /\ yielded # <<>>
                /\ YieldedStart(yielded[Len(yielded)]) = start_position
                /\ consumed = start_position + Len(key))
        /\ \A j \in 1..Len(yielded) :
               YieldedStart(yielded[j]) + Len(key) <= consumed

\* a second match of a key of two different symbols was yielded on the last
\* element of the sequence
C21_Witness ==
    /\ JustYielded
    /\ Len(yielded) = 2
    /\ Len(key) = 2
    /\ key[1] # key[2]
    /\ consumed = Len(sequence)
    /\ start_position = 2

-----------------------------------------------------------------------------
(* C22: the search terminates                                              *)

\* every shift amount of the table is at least 1, the matched length never
\* falls below -1, and no more positions are yielded than elements consumed
ShiftsMakeProgress ==
    /\ \A i \in 1..Len(shifts_table) : shifts_table[i] >= 1
    /\ (pc = "table_while" => shift >= 1)
    /\ matched_lenght >= -1
    /\ Len(yielded) <= consumed

\* C22: for every finite sequence and every non-empty key, iterating
\* search_subsequence to exhaustion terminates: the table loop and, for
\* every consumed element, the inner shift loop end (every shift is at
\* least 1, the matched length stops falling at -1), and the generator ends
\* after the last element having yielded finitely many positions.
C22_SearchTerminates ==
    /\ []ShiftsMakeProgress
    /\ (pc = "start" /\ Len(key) > 0)
           ~> (pc = "done" /\ consumed = Len(sequence))

\* the generator has ended after shifting by more than one position and
\* yielding a match
C22_Witness ==
    /\ pc = "done"
    /\ Len(sequence) >= 3
    /\ consumed = Len(sequence)
    /\ \E i \in 1..Len(shifts_table) : shifts_table[i] > 1
    /\ yielded # <<>>

-----------------------------------------------------------------------------
(* The gold annotations of a document: _get_annotations of                 *)
(* TempEval3FileReader (src/mantime/readers.py lines 199-230) and of       *)
(* WikiWarsInLineFileReader (lines 331-358), over TEXT and a flat sequence *)
(* of child elements.  The whole source is read before the first event is  *)
(* handled (documents shorter than one read of iterparse), so text and     *)
(* tail are set at the start events.  The attributes of an element are     *)
(* stood for by its position among the children.                           *)

\* most child elements of TEXT
MaxChildren == 2
\* longest text and longest tail of an element
MaxElementText == 2

\* the texts and tails of an element: None or a non-empty string
ElementTexts ==
    {None} \cup {[i \in 1..n |-> "x"] : n \in 1..MaxElementText}

\* self.tags_to_spot of the two readers (lines 121, 259)
tags_to_spot(reader) ==
    IF reader = "TempEval3" THEN {"TIMEX3", "EVENT"} ELSE {"TIMEX2"}

\* the tags of the child elements: for each reader one that it spots and
\* one that it does not
ElementTags == {"TIMEX3", "TIMEX2", "SIGNAL"}

ChildElements == [tag : ElementTags, text : ElementTexts, tail : ElementTexts]

\* the events of iterparse(..., events=('start', 'end')), numbered from 0:
\* start of TEXT, start and end of each child, end of TEXT
EventCount == 2 * Len(children) + 2
EventIsStart(k) == k = 0 \/ (k < EventCount - 1 /\ k % 2 = 1)
EventChild(k) == IF k = 0 \/ k = EventCount - 1 THEN 0 ELSE (k + 1) \div 2
EventElement(k) ==
    IF EventChild(k) = 0
    THEN [tag |-> "TEXT", text |-> root_text, tail |-> None]
    ELSE children[EventChild(k)]

\* lines 222-223, 352-353: (element.tag, element.attrib, (start, end))
GoldAnnotation(tag, attrib, start, stop) == <<tag, attrib, <<start, stop>>>>

AnnotationsInit ==
    /\ ann_reader \in {"TempEval3", "WikiWars"}
    /\ root_text \in ElementTexts
    /\ children \in SeqsUpTo(ChildElements, MaxChildren)
    /\ initial_offset \in {0, -1}
    /\ running_offset = initial_offset
    /\ returned_annotations = <<>>
    /\ event_index = 0
    /\ ann_pc = "iterparse"
    /\ NotAnnIdle

\* lines 215-224 (in the try of line 214) and lines 346-354: a start event
StartEvent ==
    /\ ann_pc = "iterparse"
    /\ event_index < EventCount
    /\ EventIsStart(event_index)
    /\ LET element == EventElement(event_index)
       IN IF element.text = None
          THEN \* len(None) raises TypeError
               IF ann_reader = "TempEval3"
                      \/ element.tag \in tags_to_spot(ann_reader)
               THEN \* except TypeError: continue
                    /\ event_index' = event_index + 1
                    /\ UNCHANGED <<running_offset, returned_annotations, ann_pc>>
               ELSE \* line 354 is outside the try of lines 348-351
                    /\ ann_pc' = "TypeError"
                    /\ UNCHANGED <<running_offset, returned_annotations,
                                   event_index>>
          ELSE /\ returned_annotations' =
                     IF element.tag \in tags_to_spot(ann_reader)
                     THEN Append(returned_annotations,
                                 GoldAnnotation(element.tag,
                                            EventChild(event_index),
                                            running_offset,
                                            running_offset + Len(element.text)))
                     ELSE returned_annotations
               /\ running_offset' = running_offset + Len(element.text)
               /\ event_index' = event_index + 1
               /\ UNCHANGED ann_pc
    /\ UNCHANGED <<ann_reader, root_text, children, initial_offset>>
    /\ UNCHANGED notAnnVars

\* lines 225-227, 355-357: an end event
EndEvent ==
    /\ ann_pc = "iterparse"
    /\ event_index < EventCount
    /\ ~EventIsStart(event_index)
    /\ LET element == EventElement(event_index)
       IN running_offset' =
              IF element.text # None /\ element.tail # None
              THEN running_offset + Len(element.tail)
              ELSE running_offset
    /\ event_index' = event_index + 1
    /\ UNCHANGED <<ann_reader, root_text, children, initial_offset,
                   returned_annotations, ann_pc>>
    /\ UNCHANGED notAnnVars

\* lines 230, 358: return annotations
AnnotationsReturn ==
    /\ ann_pc = "iterparse"
    /\ event_index = EventCount
    /\ ann_pc' = "returned"
    /\ UNCHANGED <<ann_reader, root_text, children, initial_offset,
                   running_offset, returned_annotations, event_index>>
    /\ UNCHANGED notAnnVars

AnnotationsNext == StartEvent \/ EndEvent \/ AnnotationsReturn

SpecAnnotations == AnnotationsInit /\ [][AnnotationsNext]_vars

(* C24: the running offset                                                 *)

\* the number of text characters of TEXT that precede child i
RECURSIVE TextCharactersBefore(_)
TextCharactersBefore(i) ==
    IF i = 1
    THEN Len(root_text)
    ELSE TextCharactersBefore(i - 1)
         + Len(children[i - 1].text) + Len(children[i - 1].tail)

\* the number of children closed so far
ChildrenClosed ==
    IF event_index = EventCount THEN Len(children) ELSE event_index \div 2

\* C24: for every flat sequence of child elements of TEXT (spotted or not,
\* with or without text, each followed by any tail), after each element has
\* been closed the running offset is the initial offset plus the number of
\* text characters before that point; every returned annotation starts at
\* the initial offset plus the number of text characters before it and ends
\* its own text's length later; annotations come in document order.
C24_RunningOffset ==
    ann_pc \in {"iterparse", "returned"} =>
        /\ ChildrenClosed > 0 /\ event_index % 2 = 1 =>
              running_offset = initial_offset
                             + TextCharactersBefore(ChildrenClosed + 1)
        /\ \A j \in 1..Len(returned_annotations) :
              LET a == returned_annotations[j]
                  child == a[2]
              IN /\ a[3][1] = initial_offset + TextCharactersBefore(child)
                 /\ a[3][2] = a[3][1] + Len(children[child].text)
                 /\ j > 1 => returned_annotations[j - 1][2] < child

-----------------------------------------------------------------------------
(* The offset correction: TempEval3FileReader.parse, src/mantime/readers.py *)
(* lines 139-197, followed by the overwrite of TempEval3Writer.write,      *)
(* src/mantime/writers.py lines 96-116, for one predicted annotation.  A   *)
(* token that the parser reports carries its offsets in the text the       *)
(* parser was handed; the words of all sentences are taken as one list.    *)

\* most child elements of TEXT of a parsed document
MaxParsedChildren == 1
\* most blanks at the start of TEXT
MaxLeadingBlanks == 2
\* most line ends between </TEXT> and the next tag
MaxTextTail == 1
\* most words the parser reports
MaxParsedWords == 1

Blanks(n) == [i \in 1..n |-> " "]

\* the texts TEXT starts with: blanks, then nothing or a character
LeadingTexts ==
    {Blanks(n) \o rest : n \in 0..MaxLeadingBlanks, rest \in {<<>>, <<"x">>}}

\* the tails of a child element
TailTexts == {None, <<" ">>, <<" ", "x">>}

ParsedChildren == [tag : ElementTags, text : ElementTexts, tail : TailTexts]

\* the tails of TEXT: line ends
TextTails == {[i \in 1..n |-> "\n"] : n \in 0..MaxTextTail}

IndexError == [raised |-> TRUE, value |-> "IndexError"]

\* lines 140, 142: etree.tostring(text_node, method='text'), the texts and
\* tails of the children
RECURSIVE TextOfChildren(_)
TextOfChildren(kids) ==
    IF kids = <<>>
    THEN <<>>
    ELSE Head(kids).text \o Head(kids).tail \o TextOfChildren(Tail(kids))

\* lines 141, 143, 144: len(text_xml.split('</TEXT>')[1]); an element
\* without text and without children is written <TEXT />, and the split
\* has one piece only
RightChars(root, kids, tail) ==
    IF root = <<>> /\ kids = <<>> THEN IndexError ELSE Returned(Len(tail))

\* lines 140-145: text_string: the text of TEXT, of its children and the
\* tail of TEXT (lines 140, 142), cut by text_string[:-right_chars]
\* (line 145), where -0 is 0
TextString(root, kids, tail) ==
    LET string == root \o TextOfChildren(kids) \o tail
        right_chars == RightChars(root, kids, tail)
    IN IF right_chars.raised
       THEN right_chars
       ELSE IF right_chars.value = 0
            THEN Returned(<<>>)
            ELSE Returned(SubSeq(string, 1,
                                 Len(string) - right_chars.value))

\* text_string.lstrip()
RECURSIVE lstrip(_)
lstrip(string) ==
    IF string # <<>> /\ Head(string) = " " THEN lstrip(Tail(string)) ELSE string

\* line 148
LeftChars(string) == Len(string) - Len(lstrip(string))

\* lines 150-152: the words of CORENLP.parse(text_string), a call out of
\* the repository: whatever tokens the parser reports, each with the
\* offsets of some characters, in order
StanfordWords(string) ==
    {tokens \in SeqsUpTo([CharacterOffsetBegin : 0..Len(string),
                          CharacterOffsetEnd : 0..Len(string)],
                         MaxParsedWords) :
        /\ \A k \in 1..Len(tokens) :
               tokens[k].CharacterOffsetBegin < tokens[k].CharacterOffsetEnd
        /\ \A k \in 1..(Len(tokens) - 1) :
               tokens[k].CharacterOffsetEnd
                   <= tokens[k + 1].CharacterOffsetBegin}

\* the events of iterparse over TEXT and its children, in order
ParseEvents(root, kids) ==
    [k \in 1..(2 * Len(kids) + 2) |->
        IF k = 1
        THEN [event |-> "start", child |-> 0,
              element |-> [tag |-> "TEXT", text |-> root, tail |-> None]]
        ELSE IF k = 2 * Len(kids) + 2
        THEN [event |-> "end", child |-> 0,
              element |-> [tag |-> "TEXT", text |-> root, tail |-> None]]
        ELSE [event |-> IF k % 2 = 0 THEN "start" ELSE "end",
              child |-> k \div 2,
              element |-> kids[k \div 2]]]

\* lines 212-229: the loop of TempEval3FileReader._get_annotations
RECURSIVE HandleEvents(_, _, _)
HandleEvents(events, offset, found) ==
    IF events = <<>>
    THEN found
    ELSE LET element == Head(events).element
         IN IF Head(events).event = "start"
            THEN IF element.text = None
                 THEN \* TypeError: continue
                      HandleEvents(Tail(events), offset, found)
                 ELSE HandleEvents(
                          Tail(events),
                          offset + Len(element.text),
                          IF element.tag \in tags_to_spot("TempEval3")
                          THEN Append(found,
                                      GoldAnnotation(
                                          element.tag, Head(events).child,
                                          offset, offset + Len(element.text)))
                          ELSE found)
            ELSE HandleEvents(
                     Tail(events),
                     IF element.text # None /\ element.tail # None
                     THEN offset + Len(element.tail)
                     ELSE offset,
                     found)

\* lines 199-230
get_annotations(root, kids, offset) ==
    HandleEvents(ParseEvents(root, kids), offset, <<>>)

\* lines 183-184: int(attr['CharacterOffsetBegin'])-left_chars
WordOffset(attr, left) == attr - left

ReadInit ==
    /\ xml_root_text \in LeadingTexts
    /\ xml_children \in SeqsUpTo(ParsedChildren, MaxParsedChildren)
    /\ xml_text_tail \in TextTails
    /\ text_string = <<>>
    /\ parse_left_chars = 0
    /\ document_text_offset = 0
    /\ document_gold_annotations = <<>>
    /\ stanford_words = <<>>
    /\ document_words = <<>>
    /\ words_read = 0
    /\ offset_begin = 0
    /\ offset_end = 0
    /\ read_pc = "parse"
    /\ NotReadIdle

\* lines 139-167: the text, left_chars, the parse, the document's fields
ReadDocument ==
    /\ read_pc = "parse"
    /\ LET string == TextString(xml_root_text, xml_children, xml_text_tail)
       IN IF string.raised
          THEN /\ read_pc' = string.value
               /\ UNCHANGED <<text_string, parse_left_chars, stanford_words,
                              document_text_offset,
                              document_gold_annotations>>
          ELSE /\ text_string' = string.value
               /\ parse_left_chars' = LeftChars(string.value)
               /\ stanford_words' \in StanfordWords(string.value)
               /\ document_text_offset' = LeftChars(string.value)
               /\ document_gold_annotations' =
                      get_annotations(xml_root_text, xml_children,
                                      -LeftChars(string.value))
               /\ read_pc' = "words"
    /\ UNCHANGED <<xml_root_text, xml_children, xml_text_tail,
                   document_words, words_read, offset_begin, offset_end>>
    /\ UNCHANGED notReadVars

\* lines 181-192: the next word of the parse; its offsets are computed and
\* Word is called with them
ReadWord ==
    /\ read_pc = "words"
    /\ words_read < Len(stanford_words)
    /\ LET attr == stanford_words[words_read + 1]
           from == WordOffset(attr.CharacterOffsetBegin, parse_left_chars)
           to == WordOffset(attr.CharacterOffsetEnd, parse_left_chars)
           word == CallWord(ReaderKeywords,
                            [char_offset_begin |-> from,
                             char_offset_end |-> to,
                             id_token |-> words_read])
       IN /\ offset_begin' = from
          /\ offset_end' = to
          /\ words_read' = words_read + 1
          /\ IF word.raised
             THEN /\ read_pc' = "TypeError"
                  /\ UNCHANGED document_words
             ELSE /\ document_words' = Append(document_words, word.value)
                  /\ UNCHANGED read_pc
    /\ UNCHANGED <<xml_root_text, xml_children, xml_text_tail, text_string,
                   parse_left_chars, document_text_offset,
                   document_gold_annotations, stanford_words>>
    /\ UNCHANGED notReadVars

\* lines 193-197: the loops are over, store_gold_annotations is called and
\* the document returned
ReturnDocument ==
    /\ read_pc = "words"
    /\ words_read = Len(stanford_words)
    /\ read_pc' = IF CallStore(StoreArguments).raised THEN "TypeError"
                                                      ELSE "parsed"
    /\ UNCHANGED <<xml_root_text, xml_children, xml_text_tail, text_string,
                   parse_left_chars, document_text_offset,
                   document_gold_annotations, stanford_words, document_words,
                   words_read, offset_begin, offset_end>>
    /\ UNCHANGED notReadVars

ReadNext == ReadDocument \/ ReadWord \/ ReturnDocument

SpecOffsets == ReadInit /\ [][ReadNext]_vars

(* C23: the offset correction is applied consistently                      *)

\* the text of the document: the text of TEXT and of its children
TextOfDocument == xml_root_text \o TextOfChildren(xml_children)

\* the blanks the text of the document starts with
LeadingBlanks ==
    CHOOSE n \in 0..Len(TextOfDocument) :
        /\ \A i \in 1..n : TextOfDocument[i] = " "
        /\ n = Len(TextOfDocument) \/ TextOfDocument[n + 1] # " "

\* C23: the reader shifts every token offset and every gold-span offset by
\* the same constant, minus the number of leading blanks of the document
\* text, which it keeps as document.text_offset (for the writers to add
\* back): once the text is read document.text_offset is that number, the
\* gold spans are those of offset 0 moved down by it, and the offsets
\* computed for a word are those the parser reports moved down by it.
C23_OffsetCorrectionConsistent ==
    read_pc \in {"words", "parsed", "TypeError"} =>
        /\ document_text_offset = LeadingBlanks
        /\ words_read > 0 =>
              /\ offset_begin =
                     stanford_words[words_read].CharacterOffsetBegin
                         - LeadingBlanks
              /\ offset_end =
                     stanford_words[words_read].CharacterOffsetEnd
                         - LeadingBlanks
        /\ LET unshifted == get_annotations(xml_root_text, xml_children, 0)
           IN /\ Len(unshifted) = Len(document_gold_annotations)
              /\ \A j \in 1..Len(unshifted) :
                    /\ document_gold_annotations[j][3][1] =
                           unshifted[j][3][1] - LeadingBlanks
                    /\ document_gold_annotations[j][3][2] =
                           unshifted[j][3][2] - LeadingBlanks

-----------------------------------------------------------------------------
(* C25: an existing output file is kept                                    *)

\* the test loop is about to take a document whose output file exists
AtExistingOutput ==
    /\ mode = "test"
    /\ batch_pc = "loop"
    /\ file_index < Len(input_files)
    /\ (file_index + 1) \in DOMAIN output_files

\* C25: in test mode a document is labelled and written only if no file of
\* its base name exists under ./output: an existing output file is never
\* overwritten and its document is not labelled again on any later run,
\* also when the file is the empty one left by a run in which label()
\* raised after the file was opened or returned [''] for a parse error.
C25_ExistingOutputIsKept ==
    [][/\ \A f \in DOMAIN output_files :
              /\ f \in DOMAIN output_files'
              /\ output_files'[f] = output_files[f]
       /\ AtExistingOutput =>
              /\ file_index' = file_index + 1
              /\ batch_pc' = "loop"
              /\ logged' = logged
              /\ output_files' = output_files]_vars

\* a later run has finished after passing the empty files that an earlier
\* run left when label() raised and when it returned ['']
C25_Witness ==
    /\ mode = "test"
    /\ calls > 0
    /\ batch_pc = "finished"
    /\ \E f \in DOMAIN output_files :
          output_files[f] = "" /\ input_files[f] = "Error"
    /\ \E f \in DOMAIN output_files :
          output_files[f] = "" /\ input_files[f] = "ParseError"
    /\ \E f \in DOMAIN output_files : output_files[f] = "annotated"

-----------------------------------------------------------------------------
(* C26: the documents train hands to the classifiers                       *)

\* the successfully parsed documents of the folder of the latest call
ParsedOfLatestFolder ==
    {Doc(calls, f) : f \in {g \in 1..Len(input_files) : input_files[g] = "ok"}}

\* C26: train(folder) trains on exactly the successfully parsed documents
\* of the given folder: after any sequence of train calls on one instance
\* the list handed to the classifiers in the latest call holds the
\* documents of that call's folder only, none of an earlier call's folder,
\* and never a document skipped for a parse error.
C26_TrainsOnGivenFolderOnly ==
    (mode = "train" /\ batch_pc = "trained") =>
        /\ {trained_documents[i] : i \in 1..Len(trained_documents)}
               = ParsedOfLatestFolder
        /\ \A i \in 1..Len(trained_documents) :
              trained_documents[i][1] = calls

-----------------------------------------------------------------------------
(* Memoize, src/mantime/utilities.py lines 178-190.  The memoized function *)
(* is called with a tuple of small integers and at most one keyword        *)
(* argument; a pickle is the sequence of its opcodes and their operands.   *)
(* What self.function does with a key is not fixed: it returns one of two  *)
(* values, or raises.                                                      *)

\* most calls of the memoized function
MaxMemoCalls == 3
\* most calls that wait for a call their function has made
MaxMemoDepth == 2

\* the positional arguments and the keyword arguments of a call
ArgumentTuples == {<<>>, <<0>>, <<1>>, <<0, 1>>}
KeywordDicts == {<<>>, <<<<"k", 0>>>>}

\* the values self.function returns
FunctionValues == {"u", "v"}

\* the operand of BININT1 for a small integer
ByteOf(n) == IF n = 0 THEN "x00" ELSE "x01"

RECURSIVE PickledItems(_)
PickledItems(items) ==
    IF items = <<>>
    THEN <<>>
    ELSE <<"K", ByteOf(Head(items))>> \o PickledItems(Tail(items))

\* cPickle.dumps(args, 1) of a tuple of small integers
DumpsTuple(args) ==
    IF args = <<>>
    THEN <<")", ".">>
    ELSE <<"(">> \o PickledItems(args) \o <<"t", "q", ".">>

\* cPickle.dumps(kwrds, 1) of a dict of at most one item
DumpsDict(kwrds) ==
    IF kwrds = <<>>
    THEN <<"}", "q", ".">>
    ELSE <<"}", "q", "U", kwrds[1][1], "K", ByteOf(kwrds[1][2]), "s", ".">>

\* line 187
MemoKey(args, kwrds) == DumpsTuple(args) \o DumpsDict(kwrds)

AllMemoKeys ==
    {MemoKey(args, kwrds) : args \in ArgumentTuples, kwrds \in KeywordDicts}

\* a lookup that finds no key
KeyNeverInMemo(k) == FALSE

\* line 188: key in self.memo
KeyInMemo(k) == k \in DOMAIN memo

\* lines 181-183
MemoInit ==
    /\ memo = <<>>
    /\ memo_key = <<>>
    /\ memo_outer = <<>>
    /\ memo_result = <<>>
    /\ memo_calls = 0
    /\ function_calls =
           [k \in AllMemoKeys |->
               [returned |-> 0, raised |-> 0, called |-> 0, reentered |-> 0]]
    /\ memo_pc = "ready"
    /\ NotMemoIdle

\* lines 185-188: a call; the key is built and looked up.  The caller is
\* the program, between two calls, or self.function of a call in progress
\* (line 189), which then waits for the call it has made
CallMemoized ==
    /\ memo_pc \in {"ready", "returned", "raised", "invoke"}
    /\ memo_calls < MaxMemoCalls
    /\ memo_pc = "invoke" => Len(memo_outer) < MaxMemoDepth
    /\ \E args \in ArgumentTuples, kwrds \in KeywordDicts :
          LET k == MemoKey(args, kwrds)
              running == IF memo_pc = "invoke"
                         THEN Append(memo_outer, memo_key)
                         ELSE <<>>
              reentry == IF \E d \in 1..Len(running) : running[d] = k
                         THEN 1 ELSE 0
          IN /\ memo_key' = k
             /\ memo_outer' = running
             /\ function_calls' =
                    [function_calls EXCEPT ![k].called = @ + 1,
                                           ![k].reentered = @ + reentry]
             /\ memo_pc' = IF KeyInMemo(k) THEN "lookup" ELSE "invoke"
    /\ memo_calls' = memo_calls + 1
    /\ UNCHANGED <<memo, memo_result>>
    /\ UNCHANGED notMemoVars

\* line 189: self.function returns, its value is stored
FunctionReturns ==
    /\ memo_pc = "invoke"
    /\ \E v \in FunctionValues :
          memo' = [k \in DOMAIN memo \cup {memo_key} |->
                      IF k = memo_key THEN v ELSE memo[k]]
    /\ function_calls' = [function_calls EXCEPT ![memo_key].returned = @ + 1]
    /\ memo_pc' = "lookup"
    /\ UNCHANGED <<memo_key, memo_outer, memo_result, memo_calls>>
    /\ UNCHANGED notMemoVars

\* line 189: self.function raises, the exception leaves __call__, into the
\* program or into the self.function that made the call
FunctionRaises ==
    /\ memo_pc = "invoke"
    /\ function_calls' = [function_calls EXCEPT ![memo_key].raised = @ + 1]
    /\ memo_result' = [raised |-> TRUE, value |-> "Exception"]
    /\ IF memo_outer = <<>>
       THEN /\ memo_pc' = "raised"
            /\ UNCHANGED <<memo_key, memo_outer>>
       ELSE /\ memo_pc' = "invoke"
            /\ memo_key' = memo_outer[Len(memo_outer)]
            /\ memo_outer' = SubSeq(memo_outer, 1, Len(memo_outer) - 1)
    /\ UNCHANGED <<memo, memo_calls>>
    /\ UNCHANGED notMemoVars

\* line 190: return self.memo[key], to the program or to the self.function
\* that made the call
ReturnStored ==
    /\ memo_pc = "lookup"
    /\ memo_result' = Returned(memo[memo_key])
    /\ IF memo_outer = <<>>
       THEN /\ memo_pc' = "returned"
            /\ UNCHANGED <<memo_key, memo_outer>>
       ELSE /\ memo_pc' = "invoke"
            /\ memo_key' = memo_outer[Len(memo_outer)]
            /\ memo_outer' = SubSeq(memo_outer, 1, Len(memo_outer) - 1)
    /\ UNCHANGED <<memo, memo_calls, function_calls>>
    /\ UNCHANGED notMemoVars

MemoNext ==
    \/ CallMemoized
    \/ FunctionReturns
    \/ FunctionRaises
    \/ ReturnStored

SpecMemoize == MemoInit /\ [][MemoNext]_vars

(* C27: Memoize                                                            *)

\* self.function has returned at most once for every key, a key is stored
\* exactly when it has, a finished call has returned the stored value, and
\* after a call that raised the key is not stored
InvokedAtMostOnce ==
    /\ \A k \in AllMemoKeys :
          /\ function_calls[k].returned <= 1
          /\ k \in DOMAIN memo <=> function_calls[k].returned = 1
    /\ memo_pc = "returned" => memo_result = Returned(memo[memo_key])
    /\ memo_pc = "raised" => memo_key \notin DOMAIN memo

\* a stored entry stays and keeps its value; a call of a stored key does
\* not invoke self.function; a call in which it raises stores nothing
EntriesAreKept ==
    /\ \A k \in DOMAIN memo : k \in DOMAIN memo' /\ memo'[k] = memo[k]
    /\ \A k \in AllMemoKeys :
          (k \in DOMAIN memo \/ memo_pc' = "raised") =>
              /\ function_calls'[k].returned = function_calls[k].returned
              /\ (k \in DOMAIN memo =>
                     function_calls'[k].raised = function_calls[k].raised)
    /\ memo_pc' = "raised" => memo' = memo

\* C27 as stated: over any sequence of calls the wrapped function is
\* invoked at most once per distinct (positional arguments, keyword
\* arguments) key; every later call with the key returns the value the
\* first call stored, without invoking the function; entries are never
\* evicted or changed; a call in which the function raises stores nothing,
\* so that the next call with the key invokes the function again.
C27_MemoizeInvokesOncePerKey ==
    []InvokedAtMostOnce /\ [][EntriesAreKept]_vars

\* the key was never called while a call with it was running
NeverReentered(k) == function_calls[k].reentered = 0

\* InvokedAtMostOnce for the keys never called while a call with them was
\* running
InvokedOnceUnlessReentered ==
    /\ \A k \in AllMemoKeys :
          NeverReentered(k) =>
              /\ function_calls[k].returned <= 1
              /\ k \in DOMAIN memo <=> function_calls[k].returned = 1
    /\ memo_pc = "returned" => memo_result = Returned(memo[memo_key])
    /\ (memo_pc = "raised" /\ NeverReentered(memo_key)) =>
           memo_key \notin DOMAIN memo

\* EntriesAreKept for the keys never called while a call with them was
\* running; no entry is evicted, whatever its key; a call that returns
\* returns the stored value; a step in which self.function raises stores
\* nothing
EntriesAreKeptUnlessReentered ==
    /\ \A k \in DOMAIN memo :
          /\ k \in DOMAIN memo'
          /\ function_calls'[k].reentered = 0 => memo'[k] = memo[k]
    /\ \A k \in AllMemoKeys :
          (k \in DOMAIN memo /\ function_calls'[k].reentered = 0) =>
              /\ function_calls'[k].returned = function_calls[k].returned
              /\ function_calls'[k].raised = function_calls[k].raised
    /\ memo_pc = "lookup" /\ memo_pc' # "lookup" =>
           memo_result' = Returned(memo[memo_key])
    /\ (\E k \in AllMemoKeys :
            function_calls'[k].raised # function_calls[k].raised) =>
           memo' = memo

\* C27 as amended: over any sequence of calls, nested ones included, for
\* every key that is never called while a call with that key is running:
\* the wrapped function returns at most once for the key; every later call
\* with the key returns the value the first call stored, without invoking
\* the function; the entry is never changed, and no entry is ever evicted;
\* a call in which the function raises stores nothing, so that the next
\* call with the key invokes the function again.
C27_InvokesOncePerKeyUnlessReentered ==
    []InvokedOnceUnlessReentered /\ [][EntriesAreKeptUnlessReentered]_vars

\* a key was called three times, never while a call with it was running:
\* the function raised, then returned, and the third call returned the
\* stored value
C27_Witness ==
    /\ memo_pc = "returned"
    /\ NeverReentered(memo_key)
    /\ function_calls[memo_key].called = 3
    /\ function_calls[memo_key].raised = 1
    /\ function_calls[memo_key].returned = 1
    /\ memo_key = MemoKey(<<0, 1>>, <<<<"k", 0>>>>)

=============================================================================
